---- MODULE Spec2Model ----
(***************************************************************************)
(* Model of the laba voice-message relay (rx3lixir/laba): the UDP packet   *)
(* codec (internal/udp/packet.go), the session store wrapper               *)
(* (internal/session/session.go) and the protocol engine                   *)
(* (internal/udp/server.go).                                               *)
(*                                                                         *)
(* The two main specifications, followed by scenario specifications:       *)
(*   CodecSpec - the pure functions Marshal / Unmarshal applied to         *)
(*               packets and byte strings drawn from bounded sets;         *)
(*   Spec      - the engine: the receive loop, one task per datagram, the  *)
(*               reassembly tasks, and the key-value store, ledger and     *)
(*               blob store they share.                                    *)
(***************************************************************************)
EXTENDS Integers, Sequences, FiniteSets, TLC

(***************************************************************************)
(* Bytes and fixed-width integers.  A uint32 that is only moved around     *)
(* (the checksum) is kept as a pair <<hi, lo>> of 16-bit halves; a uint32   *)
(* that is counted with (chunk index, total) is a natural number.          *)
(***************************************************************************)
Zeros(n) == [i \in 1..n |-> 0]

RECURSIVE XorBits(_, _, _)
\* bitwise exclusive or of two n-bit naturals, bit by bit
XorBits(a, b, n) ==
    IF n = 0 THEN 0
    ELSE ((a + b) % 2) + 2 * XorBits(a \div 2, b \div 2, n - 1)

RECURSIVE XorTable(_, _)
XorTable(lo, hi) ==
    IF lo = hi THEN << XorBits(lo \div 16, lo % 16, 4) >>
    ELSE XorTable(lo, (lo + hi) \div 2) \o XorTable((lo + hi) \div 2 + 1, hi)

\* the exclusive or of every pair of 4-bit values a, b, at index 16 * a + b + 1
XorNibble == XorTable(0, 255)

\* bitwise exclusive or of two bytes
Xor8(a, b) ==
    XorNibble[(a \div 16) * 16 + (b \div 16) + 1] * 16 + XorNibble[(a % 16) * 16 + (b % 16) + 1]

\* bitwise exclusive or of two 16-bit naturals
Xor16(a, b) == Xor8(a \div 256, b \div 256) * 256 + Xor8(a % 256, b % 256)

\* binary.BigEndian encodings
BE16(n) == << (n \div 256) % 256, n % 256 >>
BE32(n) == << (n \div 16777216) % 256, (n \div 65536) % 256, (n \div 256) % 256, n % 256 >>
BE32w(w) == BE16(w[1]) \o BE16(w[2])
\* binary.BigEndian decodings
U16(b) == b[1] * 256 + b[2]
U32(b) == b[1] * 16777216 + b[2] * 65536 + b[3] * 256 + b[4]
W32(b) == << U16(SubSeq(b, 1, 2)), U16(SubSeq(b, 3, 4)) >>

(***************************************************************************)
(* hash/crc32 ChecksumIEEE: reflected CRC-32, polynomial 0xEDB88320,       *)
(* initial value and final xor 0xFFFFFFFF.                                 *)
(***************************************************************************)
PolyHi == 60856   \* 0xEDB8
PolyLo == 33568   \* 0x8320

\* one bit of the register: shift right, xor the polynomial if a one fell out
CrcShift(w) ==
    LET hi == w[1] \div 2
        lo == (w[2] \div 2) + (w[1] % 2) * 32768
    IN  IF w[2] % 2 = 1 THEN << Xor16(hi, PolyHi), Xor16(lo, PolyLo) >>
        ELSE << hi, lo >>

RECURSIVE CrcShifts(_, _)
\* n bits of the register
CrcShifts(w, n) == IF n = 0 THEN w ELSE CrcShifts(CrcShift(w), n - 1)

RECURSIVE IEEETableRange(_, _)
IEEETableRange(lo, hi) ==
    IF lo = hi THEN << CrcShifts(<< 0, lo >>, 8) >>
    ELSE IEEETableRange(lo, (lo + hi) \div 2) \o IEEETableRange((lo + hi) \div 2 + 1, hi)

\* crc32.IEEETable: the register after eight shifts of each byte value b, at index b + 1
IEEETable == IEEETableRange(0, 255)

\* the table entry e folded into the register shifted right by eight bits
CrcFold(w, e) ==
    << Xor16(e[1], w[1] \div 256),
       Xor16(e[2], (w[2] \div 256) + (w[1] % 256) * 256) >>

\* one byte of input: crc = table[byte(crc) ^ b] ^ (crc >> 8)
CrcByte(w, b) == CrcFold(w, IEEETable[Xor8(w[2] % 256, b) + 1])

RECURSIVE CrcRange(_, _, _, _)
\* the register after the bytes s[lo..hi], split in halves to keep recursion shallow
CrcRange(w, s, lo, hi) ==
    IF lo > hi THEN w
    ELSE IF lo = hi THEN CrcByte(w, s[lo])
    ELSE LET mid  == (lo + hi) \div 2
             left == CrcRange(w, s, lo, mid)
         IN  \* the test makes the left half a value before the right half starts
             IF left[1] >= 0 THEN CrcRange(left, s, mid + 1, hi) ELSE left

\* the final exclusive or with 0xFFFFFFFF
CrcFinal(w) == << Xor16(w[1], 65535), Xor16(w[2], 65535) >>

ChecksumIEEE(s) == CrcFinal(CrcRange(<< 65535, 65535 >>, s, 1, Len(s)))

(***************************************************************************)
(* Packet codec (internal/udp/packet.go)                                   *)
(***************************************************************************)
PacketTypeAuth         == 1
PacketTypeAuthAck      == 2
PacketTypeVoiceData    == 3
PacketTypeAck          == 4
PacketTypeHeartbeat    == 5
PacketTypeListMessages == 6
PacketTypeMessageList  == 7
PacketTypeDownloadMsg  == 8
PacketTypeError        == 255

ProtocolVersion == 1
MaxPayloadSize  == 1400
MinPacketSize   == 48

\* uuid.UUID: 16 raw bytes
Uuid(n) == [i \in 1..16 |-> IF i = 16 THEN n ELSE 0]
UuidNil == Zeros(16)

\* the zero value of Packet
ZeroPacket ==
    [Version |-> 0, Type |-> 0, MessageID |-> UuidNil, ChunkIndex |-> 0,
     TotalChunks |-> 0, SenderID |-> UuidNil, RecipientID |-> UuidNil,
     Checksum |-> << 0, 0 >>, PayloadLen |-> 0, Payload |-> << >>]

\* the fields of q written to the buffer in wire order, and q itself
WriteFields(q) ==
    [err |-> "", pkt |-> q,
     data |-> << q.Version, q.Type >> \o q.MessageID \o BE32(q.ChunkIndex)
              \o BE32(q.TotalChunks) \o q.SenderID \o q.RecipientID
              \o BE32w(q.Checksum) \o BE16(q.PayloadLen) \o q.Payload]

\* Marshal with the length guard removed
MarshalNoGuard(p) ==
    WriteFields([p EXCEPT !.Checksum = ChecksumIEEE(p.Payload),
                          !.PayloadLen = Len(p.Payload) % 65536])

\* Marshal that writes the caller's checksum field instead of recomputing it
MarshalStaleChecksum(p) ==
    IF Len(p.Payload) > MaxPayloadSize
    THEN [err |-> "payload too large", pkt |-> p, data |-> << >>]
    ELSE WriteFields([p EXCEPT !.PayloadLen = Len(p.Payload)])

\* Packet.Marshal: the bytes, and the packet as Marshal leaves it
\* (it stores the checksum and the payload length into its receiver)
Marshal(p) ==
    IF Len(p.Payload) > MaxPayloadSize
    THEN [err |-> "payload too large", pkt |-> p, data |-> << >>]
    ELSE WriteFields([p EXCEPT !.Checksum = ChecksumIEEE(p.Payload),
                               !.PayloadLen = Len(p.Payload)])

\* bytes.Reader.Read into a fresh n-byte buffer at 0-based offset off:
\* copies what is there, leaves the rest zero
ReadAt(data, off, n) ==
    [i \in 1..n |-> IF off + i <= Len(data) THEN data[off + i] ELSE 0]

\* the error bytes.Reader.Read gives for n > 0 bytes at offset off
ReadErr(data, off) == IF off >= Len(data) THEN "EOF" ELSE ""

\* the error binary.Read (io.ReadFull) gives for n bytes at offset off
ReadFullErr(data, off, n) ==
    IF off >= Len(data) THEN "EOF"
    ELSE IF off + n > Len(data) THEN "unexpected EOF"
    ELSE ""

\* the fields Unmarshal has filled in once the 64 header bytes are read
UnmarshalHeader(data) ==
    [ZeroPacket EXCEPT
        !.Version     = data[1],
        !.Type        = data[2],
        !.MessageID   = ReadAt(data, 2, 16),
        !.ChunkIndex  = U32(ReadAt(data, 18, 4)),
        !.TotalChunks = U32(ReadAt(data, 22, 4)),
        !.SenderID    = ReadAt(data, 26, 16),
        !.RecipientID = ReadAt(data, 42, 16),
        !.Checksum    = W32(ReadAt(data, 58, 4)),
        !.PayloadLen  = U16(ReadAt(data, 62, 2))]

\* Unmarshal without the checksum comparison
UnmarshalNoVerify(data) ==
    IF Len(data) < MinPacketSize THEN [err |-> "packet too small", pkt |-> ZeroPacket]
    ELSE IF ReadFullErr(data, 58, 4) # "" THEN [err |-> ReadFullErr(data, 58, 4), pkt |-> ZeroPacket]
    ELSE IF ReadFullErr(data, 62, 2) # "" THEN [err |-> ReadFullErr(data, 62, 2), pkt |-> ZeroPacket]
    ELSE LET h == UnmarshalHeader(data)
         IN  IF h.PayloadLen > 0
             THEN IF ReadErr(data, 64) # "" THEN [err |-> ReadErr(data, 64), pkt |-> ZeroPacket]
                  ELSE [err |-> "", pkt |-> [h EXCEPT !.Payload = ReadAt(data, 64, h.PayloadLen)]]
             ELSE [err |-> "", pkt |-> h]

\* Unmarshal: the packet, or the error of the first read that fails
Unmarshal(data) ==
    IF Len(data) < MinPacketSize THEN [err |-> "packet too small", pkt |-> ZeroPacket]
    ELSE IF ReadFullErr(data, 58, 4) # "" THEN [err |-> ReadFullErr(data, 58, 4), pkt |-> ZeroPacket]
    ELSE IF ReadFullErr(data, 62, 2) # "" THEN [err |-> ReadFullErr(data, 62, 2), pkt |-> ZeroPacket]
    ELSE LET h == UnmarshalHeader(data)
         IN  IF h.PayloadLen > 0
             THEN IF ReadErr(data, 64) # "" THEN [err |-> ReadErr(data, 64), pkt |-> ZeroPacket]
                  ELSE LET payload == ReadAt(data, 64, h.PayloadLen)
                       IN  IF ChecksumIEEE(payload) # h.Checksum
                           THEN [err |-> "checksum mismatch", pkt |-> ZeroPacket]
                           ELSE [err |-> "", pkt |-> [h EXCEPT !.Payload = payload]]
             ELSE [err |-> "", pkt |-> h]

\* NewPacket
NewPacket(packetType, senderID, recipientID, messageID) ==
    [ZeroPacket EXCEPT !.Version = ProtocolVersion, !.Type = packetType,
                       !.MessageID = messageID, !.SenderID = senderID,
                       !.RecipientID = recipientID]

\* NewAuthPacket (the message id is a fresh uuid, given here)
NewAuthPacket(userID, jwtToken, messageID) ==
    [NewPacket(PacketTypeAuth, userID, UuidNil, messageID) EXCEPT !.Payload = jwtToken]

\* NewAckPacket
NewAckPacket(originalPacket) ==
    [NewPacket(PacketTypeAck, originalPacket.RecipientID, originalPacket.SenderID,
               originalPacket.MessageID)
        EXCEPT !.ChunkIndex = originalPacket.ChunkIndex,
               !.TotalChunks = originalPacket.TotalChunks]

\* NewVoiceDataPacket
NewVoiceDataPacket(senderID, recipientID, messageID, chunkIndex, totalChunks, data) ==
    [NewPacket(PacketTypeVoiceData, senderID, recipientID, messageID)
        EXCEPT !.ChunkIndex = chunkIndex, !.TotalChunks = totalChunks, !.Payload = data]

\* NewListMessagesPacket (the message id is a fresh uuid, given here)
NewListMessagesPacket(userID, messageID) ==
    NewPacket(PacketTypeListMessages, userID, UuidNil, messageID)

\* the payload of a download request: "download"
DownloadText == << 100, 111, 119, 110, 108, 111, 97, 100 >>

\* NewDownloadMessagePacket
NewDownloadMessagePacket(userID, messageID) ==
    [NewPacket(PacketTypeDownloadMsg, userID, UuidNil, messageID)
        EXCEPT !.Payload = DownloadText]


(***************************************************************************)
(* Bounds of the model                                                     *)
(***************************************************************************)
MaxPackets    == 3   \* datagrams the receive loop reads in one run
MaxInFlight   == 2   \* goroutines (handlers, reassembly tasks) alive at a time
MaxFaults     == 1   \* failures of the key-value store, blob store or ledger
MaxSmallLen   == 2   \* longest payload enumerated byte by byte (CodecSpec)
MaxTicks      == 4   \* steps of the clock in one run (TtlSpec)

(***************************************************************************)
(* The world around the engine: users, tokens, addresses, datagrams        *)
(***************************************************************************)
User1 == Uuid(1)
User2 == Uuid(2)
UserIds == {UuidNil, User1, User2}
\* rows of the users table (voice_messages has foreign keys into it)
RegisteredUsers == {User1, User2}

Msg1 == Uuid(17)     \* a two-chunk message
Msg2 == Uuid(18)     \* a one-chunk message
Msg3 == Uuid(19)     \* a two-chunk message User1 sends to User1
MsgIds == {Msg1, Msg2, Msg3}
AuthMsgId == Uuid(33)

Token1   == << 84, 49 >>    \* a valid token of User1
Token2   == << 84, 50 >>    \* a valid token of User2
TokenBad == << 88 >>        \* a token that does not verify

\* jwt.Service.ValidateToken: the claims of a token, or an error
ValidateToken(jwtToken) ==
    IF jwtToken = Token1 THEN [err |-> "", UserID |-> User1, Username |-> "u1"]
    ELSE IF jwtToken = Token2 THEN [err |-> "", UserID |-> User2, Username |-> "u2"]
    ELSE [err |-> "invalid token", UserID |-> UuidNil, Username |-> ""]

\* the strings of the ERROR packets, as bytes
InvalidTokenText == << 73, 110, 118, 97, 108, 105, 100, 32, 116, 111, 107, 101, 110 >>
CreateFailedText == << 70, 97, 105, 108, 101, 100, 32, 116, 111, 32, 99, 114, 101, 97,
                       116, 101, 32, 115, 101, 115, 115, 105, 111, 110 >>

\* the byte sequence B of each message, already cut into its chunks
ChunkOf(m, i) ==
    IF m \in {Msg1, Msg3} THEN (IF i = 0 THEN << 65, 65 >> ELSE << 66, 66 >>)
    ELSE << 67 >>
TotalOf(m) == IF m \in {Msg1, Msg3} THEN 2 ELSE 1

\* the chunk keys the store can hold for these messages
ChunkKeys == MsgIds \X (0..(TotalOf(Msg1) - 1))

RECURSIVE Concat(_)
\* the chunks of a sequence of chunks, joined
Concat(chunks) ==
    IF chunks = << >> THEN << >> ELSE Head(chunks) \o Concat(Tail(chunks))

BytesOf(m) == Concat([k \in 1..TotalOf(m) |-> ChunkOf(m, k - 1)])

VoiceDatagram(m, i) ==
    Marshal(NewVoiceDataPacket(User1, User2, m, i, TotalOf(m), ChunkOf(m, i))).data

\* a VOICE_DATA datagram whose checksum field was tampered with in flight
CorruptDatagram ==
    LET d == VoiceDatagram(Msg1, 0)
    IN  [d EXCEPT ![62] = (d[62] + 1) % 256]

\* the datagrams clients and the network can hand to the socket
Datagrams ==
    { [data |-> Marshal(NewAuthPacket(UuidNil, Token1, AuthMsgId)).data, addr |-> "a1"],
      [data |-> Marshal(NewAuthPacket(User1, Token2, AuthMsgId)).data, addr |-> "a2"],
      [data |-> Marshal(NewAuthPacket(User1, TokenBad, AuthMsgId)).data, addr |-> "a1"],
      [data |-> VoiceDatagram(Msg1, 0), addr |-> "a1"],
      [data |-> VoiceDatagram(Msg1, 1), addr |-> "a1"],
      [data |-> VoiceDatagram(Msg2, 0), addr |-> "a1"],
      [data |-> CorruptDatagram, addr |-> "a1"],
      [data |-> SubSeq(VoiceDatagram(Msg2, 0), 1, MinPacketSize - 1), addr |-> "a1"],
      [data |-> Marshal(NewPacket(PacketTypeHeartbeat, User1, UuidNil, AuthMsgId)).data,
       addr |-> "a1"],
      [data |-> Marshal(NewListMessagesPacket(User1, AuthMsgId)).data, addr |-> "a1"] }

(***************************************************************************)
(* State                                                                   *)
(***************************************************************************)
VARIABLES
    kvSession,   \* key-value store: session:<user_id> -> << >> or << session >>
    kvSessionExp,\* key-value store: the time at which session:<user_id> expires
    kvOnline,    \* key-value store: the set online_users
    kvChunk,     \* key-value store: pending_message:<id>:chunk:<i> -> << >> or << bytes >>
    kvChunkExp,  \* key-value store: the time at which a chunk key expires
    kvCount,     \* key-value store: pending_message:<id>:count, 0 when the key is absent
    ledger,      \* voice_messages: id -> << >> or << row >>
    blobs,       \* object store: message id -> << >> or << bytes >>
    handlers,    \* the handlePacket goroutines, in the order they were started
    reasm,       \* the processCompleteMessage goroutines, in the order they were started
    faults,      \* failures of external services so far
    crashed,     \* a goroutine has panicked: the process is gone
    codec,       \* CodecSpec: the packet, the bytes and the results of the codec
    clock,       \* seconds since the engine started
    srv,         \* the Server's ctx and conn, its listen goroutine and its Shutdown call
    cli          \* the Client: its channels, its listen goroutine and its running call

vars == << kvSession, kvSessionExp, kvOnline, kvChunk, kvChunkExp, kvCount, ledger, blobs,
           handlers, reasm, faults, crashed, codec, clock, srv, cli >>
kv     == << kvSession, kvSessionExp, kvOnline, kvChunk, kvChunkExp, kvCount >>
stores == << kvSession, kvSessionExp, kvOnline, kvChunk, kvChunkExp, kvCount, ledger, blobs >>

\* time.Now()
Now == clock

\* the lifetime CreateSession and UpdateLastSeen give the session key: Ex(300)
SessionTTL == 300

\* the lifetime SavePendingChunk gives a chunk key: Ex(600)
PendingTTL == 600

CodecIdle == [stage |-> "idle", in |-> ZeroPacket, out |-> [err |-> "", pkt |-> ZeroPacket, data |-> << >>],
              data |-> << >>, dec |-> [err |-> "", pkt |-> ZeroPacket]]

\* New + Start: the context is live, the socket is open, listen waits in ReadFromUDP
\* and Shutdown has not been called
ServerInit == [ctx |-> "live", conn |-> "open", listen |-> "read", shutdown |-> "idle"]

\* the Client when no method of it is running
NoCall == [op |-> "none"]

\* NewClient: three empty channels, the listen goroutine waiting in Read, empty
\* download maps; wire holds the datagrams written to the socket and not yet read by
\* the server, got the server's replies that have reached the client, files what
\* os.WriteFile has written
ClientInit == [ackChan |-> << >>, dataChan |-> << >>, listChan |-> << >>,
               listen |-> "read", held |-> << >>, call |-> NoCall,
               downloadChunks |-> [m \in MsgIds |-> << >>],
               downloadTotal |-> [m \in MsgIds |-> << >>],
               wire |-> << >>, got |-> {}, files |-> << >>]

\* New + Start: nothing stored, no goroutine but the receive loop
EngineInit ==
    /\ kvSession = [u \in UserIds |-> << >>]
    /\ kvSessionExp = [u \in UserIds |-> 0]
    /\ clock = 0
    /\ kvOnline = {}
    /\ kvChunk = [k \in ChunkKeys |-> << >>]
    /\ kvChunkExp = [k \in ChunkKeys |-> 0]
    /\ kvCount = [m \in MsgIds |-> 0]
    /\ ledger = [m \in MsgIds |-> << >>]
    /\ blobs = [m \in MsgIds |-> << >>]
    /\ handlers = << >>
    /\ reasm = << >>
    /\ faults = 0
    /\ crashed = FALSE
    /\ srv = ServerInit
    /\ cli = ClientInit

Init == EngineInit /\ codec = CodecIdle

\* whether an external call may fail now; every call made with the cancelled s.ctx fails
Outcomes ==
    IF srv.ctx = "cancelled" THEN {FALSE}
    ELSE IF faults < MaxFaults THEN {TRUE, FALSE} ELSE {TRUE}


(***************************************************************************)
(* Session store (internal/session/session.go)                             *)
(***************************************************************************)
\* GET session:<userID>
GetSession(userID) ==
    IF userID \in DOMAIN kvSession THEN kvSession[userID] ELSE << >>

\* the record CreateSession writes
NewSession(userID, username, addr) ==
    [UserID |-> userID, Username |-> username, Address |-> addr,
     LastSeen |-> Now, Status |-> "online", ConnectAt |-> Now]

\* IsUserOnline: SISMEMBER online_users
IsUserOnline(userID) == userID \in kvOnline

\* GET pending_message:<id>:chunk:<i>
GetPendingChunk(messageID, chunkIndex) ==
    IF << messageID, chunkIndex >> \in DOMAIN kvChunk
    THEN kvChunk[<< messageID, chunkIndex >>] ELSE << >>

\* the keys DeletePendingMessage removes, besides the counter
PendingKeys(messageID, totalChunks) ==
    {k \in DOMAIN kvChunk : k[1] = messageID /\ k[2] < totalChunks}

(***************************************************************************)
(* Receive loop and packet handlers (internal/udp/server.go)               *)
(***************************************************************************)
\* the receive buffer of listen
MaxPacketSize == 2048

\* the goroutine listen starts with the n bytes ReadFromUDP put into the buffer
NewHandler(d) ==
    [pc |-> "handlePacket",
     data |-> SubSeq(d.data, 1, IF Len(d.data) < MaxPacketSize THEN Len(d.data)
                                ELSE MaxPacketSize),
     addr |-> d.addr, pkt |-> ZeroPacket,
     uid |-> UuidNil, uname |-> "", sess |-> << >>, count |-> 0, out |-> << >>]

\* sendPacket: the bytes written to the socket for addr (nothing when Marshal fails or
\* the socket is closed; the error is logged only)
SendPacket(out, packet, addr) ==
    LET m == Marshal(packet)
    IN  IF m.err # "" \/ srv.conn = "closed" THEN out
        ELSE Append(out, [to |-> addr, data |-> m.data])

\* sendErrorPacket
SendErrorPacket(out, addr, messageID, errorMsg) ==
    SendPacket(out, [NewPacket(PacketTypeError, UuidNil, UuidNil, messageID)
                        EXCEPT !.Payload = errorMsg], addr)

\* the goroutines that have not returned
InFlight ==
    Cardinality({h \in 1..Len(handlers) : handlers[h].pc # "done"})
    + Cardinality({t \in 1..Len(reasm) : reasm[t].pc \notin {"done", "panic"}})

\* listen: one datagram read, copied, and given to a new goroutine
Listen(d) ==
    /\ ~crashed
    /\ srv.listen = "read"
    /\ srv.conn = "open"
    /\ Len(handlers) < MaxPackets
    /\ InFlight < MaxInFlight
    /\ handlers' = Append(handlers, NewHandler(d))
    /\ UNCHANGED << stores, reasm, faults, crashed, codec, clock, srv, cli >>

\* the pc at which the handler of a decoded packet starts
Dispatch(packetType) ==
    IF packetType = PacketTypeAuth THEN "handleAuth"
    ELSE IF packetType = PacketTypeVoiceData THEN "handleVoiceData"
    ELSE IF packetType = PacketTypeHeartbeat THEN "uls_get"
    ELSE "done"

\* handlePacket that dispatches whatever the header says, decoded or not
HandlePacketIgnoreErr(h) ==
    /\ ~crashed
    /\ handlers[h].pc = "handlePacket"
    /\ LET hdr == UnmarshalHeader(handlers[h].data \o Zeros(80))
           p   == [hdr EXCEPT !.Payload = ReadAt(handlers[h].data, 64, hdr.PayloadLen)]
       IN  handlers' = [handlers EXCEPT ![h].pkt = p, ![h].pc = Dispatch(p.Type)]
    /\ UNCHANGED << stores, reasm, faults, crashed, codec, clock, srv, cli >>

\* handlePacket: Unmarshal, then the switch on the packet type
HandlePacket(h) ==
    /\ ~crashed
    /\ handlers[h].pc = "handlePacket"
    /\ LET u == Unmarshal(handlers[h].data)
       IN  IF u.err # ""
           THEN handlers' = [handlers EXCEPT ![h].pc = "done"]
           ELSE handlers' = [handlers EXCEPT ![h].pkt = u.pkt, ![h].pc = Dispatch(u.pkt.Type)]
    /\ UNCHANGED << stores, reasm, faults, crashed, codec, clock, srv, cli >>

\* handleAuth that keys the session by the packet's sender id
HandleAuthKeyedBySender(h) ==
    /\ ~crashed
    /\ handlers[h].pc = "handleAuth"
    /\ LET claims == ValidateToken(handlers[h].pkt.Payload)
           sid    == handlers[h].pkt.SenderID
       IN  IF claims.err # ""
           THEN /\ handlers' = [handlers EXCEPT
                       ![h].out = SendErrorPacket(@, handlers[h].addr,
                                      handlers[h].pkt.MessageID, InvalidTokenText),
                       ![h].pc = "done"]
                /\ UNCHANGED << kvSession, kvSessionExp, faults >>
           ELSE /\ kvSession' = [kvSession EXCEPT ![sid] =
                       << NewSession(sid, claims.Username, handlers[h].addr) >>]
                /\ kvSessionExp' = [kvSessionExp EXCEPT ![sid] = clock + SessionTTL]
                /\ handlers' = [handlers EXCEPT ![h].uid = sid,
                       ![h].uname = claims.Username, ![h].pc = "auth_sadd"]
                /\ UNCHANGED faults
    /\ UNCHANGED << kvOnline, kvChunk, kvChunkExp, kvCount, ledger, blobs, reasm, crashed, codec, clock, srv, cli >>

\* handleAuth that creates the session before looking at the token's verdict
HandleAuthSessionFirst(h) ==
    /\ ~crashed
    /\ handlers[h].pc = "handleAuth"
    /\ LET claims == ValidateToken(handlers[h].pkt.Payload)
       IN  /\ kvSession' = [kvSession EXCEPT ![claims.UserID] =
                  << NewSession(claims.UserID, claims.Username, handlers[h].addr) >>]
           /\ kvSessionExp' = [kvSessionExp EXCEPT ![claims.UserID] = clock + SessionTTL]
           /\ IF claims.err # ""
              THEN handlers' = [handlers EXCEPT
                       ![h].out = SendErrorPacket(@, handlers[h].addr,
                                      handlers[h].pkt.MessageID, InvalidTokenText),
                       ![h].pc = "done"]
              ELSE handlers' = [handlers EXCEPT ![h].uid = claims.UserID,
                       ![h].uname = claims.Username, ![h].pc = "auth_sadd"]
    /\ UNCHANGED << kvOnline, kvChunk, kvChunkExp, kvCount, ledger, blobs, reasm, faults, crashed, codec, clock, srv, cli >>

\* handleAuth whose CreateSession keeps the address of a session that already exists
HandleAuthKeepAddress(h) ==
    /\ ~crashed
    /\ handlers[h].pc = "handleAuth"
    /\ LET claims == ValidateToken(handlers[h].pkt.Payload)
       IN  IF claims.err # ""
           THEN /\ handlers' = [handlers EXCEPT
                       ![h].out = SendErrorPacket(@, handlers[h].addr,
                                      handlers[h].pkt.MessageID, InvalidTokenText),
                       ![h].pc = "done"]
                /\ UNCHANGED << kvSession, kvSessionExp, faults >>
           ELSE \E ok \in Outcomes :
                IF ok
                THEN /\ kvSession' = [kvSession EXCEPT ![claims.UserID] =
                            << NewSession(claims.UserID, claims.Username,
                                   IF kvSession[claims.UserID] # << >>
                                   THEN kvSession[claims.UserID][1].Address
                                   ELSE handlers[h].addr) >>]
                     /\ kvSessionExp' = [kvSessionExp EXCEPT ![claims.UserID] =
                            clock + SessionTTL]
                     /\ handlers' = [handlers EXCEPT ![h].uid = claims.UserID,
                            ![h].uname = claims.Username, ![h].pc = "auth_sadd"]
                     /\ UNCHANGED faults
                ELSE /\ faults' = faults + 1
                     /\ handlers' = [handlers EXCEPT
                            ![h].out = SendErrorPacket(@, handlers[h].addr,
                                           handlers[h].pkt.MessageID, CreateFailedText),
                            ![h].pc = "done"]
                     /\ UNCHANGED << kvSession, kvSessionExp >>
    /\ UNCHANGED << kvOnline, kvChunk, kvChunkExp, kvCount, ledger, blobs, reasm, crashed, codec, clock, srv, cli >>

\* handleAuth, first part: ValidateToken, then CreateSession's SET session:<id> EX 300
HandleAuth(h) ==
    /\ ~crashed
    /\ handlers[h].pc = "handleAuth"
    /\ LET claims == ValidateToken(handlers[h].pkt.Payload)
       IN  IF claims.err # ""
           THEN /\ handlers' = [handlers EXCEPT
                       ![h].out = SendErrorPacket(@, handlers[h].addr,
                                      handlers[h].pkt.MessageID, InvalidTokenText),
                       ![h].pc = "done"]
                /\ UNCHANGED << kvSession, kvSessionExp, faults >>
           ELSE \E ok \in Outcomes :
                IF ok
                THEN /\ kvSession' = [kvSession EXCEPT ![claims.UserID] =
                            << NewSession(claims.UserID, claims.Username, handlers[h].addr) >>]
                     /\ kvSessionExp' = [kvSessionExp EXCEPT ![claims.UserID] =
                            clock + SessionTTL]
                     /\ handlers' = [handlers EXCEPT ![h].uid = claims.UserID,
                            ![h].uname = claims.Username, ![h].pc = "auth_sadd"]
                     /\ UNCHANGED faults
                ELSE /\ faults' = faults + 1
                     /\ handlers' = [handlers EXCEPT
                            ![h].out = SendErrorPacket(@, handlers[h].addr,
                                           handlers[h].pkt.MessageID, CreateFailedText),
                            ![h].pc = "done"]
                     /\ UNCHANGED << kvSession, kvSessionExp >>
    /\ UNCHANGED << kvOnline, kvChunk, kvChunkExp, kvCount, ledger, blobs, reasm, crashed, codec, clock, srv, cli >>

\* handleAuth, CreateSession's second command: SADD online_users <id>
HandleAuthSadd(h) ==
    /\ ~crashed
    /\ handlers[h].pc = "auth_sadd"
    /\ \E ok \in Outcomes :
           IF ok
           THEN /\ kvOnline' = kvOnline \cup {handlers[h].uid}
                /\ handlers' = [handlers EXCEPT ![h].pc = "auth_ack"]
                /\ UNCHANGED faults
           ELSE /\ faults' = faults + 1
                /\ handlers' = [handlers EXCEPT
                       ![h].out = SendErrorPacket(@, handlers[h].addr,
                                      handlers[h].pkt.MessageID, CreateFailedText),
                       ![h].pc = "done"]
                /\ UNCHANGED kvOnline
    /\ UNCHANGED << kvSession, kvSessionExp, kvChunk, kvChunkExp, kvCount, ledger, blobs, reasm, crashed, codec, clock, srv, cli >>

\* handleAuth, last part: the reply built by NewAckPacket
HandleAuthAck(h) ==
    /\ ~crashed
    /\ handlers[h].pc = "auth_ack"
    /\ handlers' = [handlers EXCEPT
           ![h].out = SendPacket(@, NewAckPacket(handlers[h].pkt), handlers[h].addr),
           ![h].pc = "done"]
    /\ UNCHANGED << stores, reasm, faults, crashed, codec, clock, srv, cli >>


\* handleVoiceData that goes on when the sender has no session
HandleVoiceDataNoSessionCheck(h) ==
    /\ ~crashed
    /\ handlers[h].pc = "handleVoiceData"
    /\ handlers' = [handlers EXCEPT ![h].pc = "vd_save"]
    /\ UNCHANGED << stores, reasm, faults, crashed, codec, clock, srv, cli >>

\* handleVoiceData, first part: GetSession(packet.SenderID), return if it fails
HandleVoiceData(h) ==
    /\ ~crashed
    /\ handlers[h].pc = "handleVoiceData"
    /\ \E ok \in Outcomes :
           /\ faults' = IF ok THEN faults ELSE faults + 1
           /\ IF ok /\ GetSession(handlers[h].pkt.SenderID) # << >>
              THEN handlers' = [handlers EXCEPT
                       ![h].uname = GetSession(handlers[h].pkt.SenderID)[1].Username,
                       ![h].pc = "uls_get"]
              ELSE handlers' = [handlers EXCEPT ![h].pc = "done"]
    /\ UNCHANGED << stores, reasm, crashed, codec, clock, srv, cli >>

\* handleHeartbeat that ignores the error of UpdateLastSeen as handleVoiceData does
AfterUpdateLastSeenIgnoreErr(packetType, err) ==
    IF packetType = PacketTypeVoiceData THEN "vd_save" ELSE "hb_ack"

\* where a handler goes after UpdateLastSeen: handleVoiceData ignores its error,
\* handleHeartbeat returns on it
AfterUpdateLastSeen(packetType, err) ==
    IF packetType = PacketTypeVoiceData THEN "vd_save"
    ELSE IF err THEN "done" ELSE "hb_ack"

\* UpdateLastSeen, first command: GetSession (handleVoiceData and handleHeartbeat)
UpdateLastSeenGet(h) ==
    /\ ~crashed
    /\ handlers[h].pc = "uls_get"
    /\ \E ok \in Outcomes :
           /\ faults' = IF ok THEN faults ELSE faults + 1
           /\ IF ok /\ GetSession(handlers[h].pkt.SenderID) # << >>
              THEN handlers' = [handlers EXCEPT
                       ![h].sess = GetSession(handlers[h].pkt.SenderID),
                       ![h].pc = "uls_set"]
              ELSE handlers' = [handlers EXCEPT
                       ![h].pc = AfterUpdateLastSeen(handlers[h].pkt.Type, TRUE)]
    /\ UNCHANGED << stores, reasm, crashed, codec, clock, srv, cli >>

\* UpdateLastSeen whose SET gives the session key the lifetime of a chunk key
UpdateLastSeenSetPendingTTL(h) ==
    /\ ~crashed
    /\ handlers[h].pc = "uls_set"
    /\ \E ok \in Outcomes :
           /\ faults' = IF ok THEN faults ELSE faults + 1
           /\ kvSession' = IF ok
                 THEN [kvSession EXCEPT ![handlers[h].pkt.SenderID] =
                          << [handlers[h].sess[1] EXCEPT !.LastSeen = Now] >>]
                 ELSE kvSession
           /\ kvSessionExp' = IF ok
                 THEN [kvSessionExp EXCEPT ![handlers[h].pkt.SenderID] = clock + PendingTTL]
                 ELSE kvSessionExp
           /\ handlers' = [handlers EXCEPT ![h].sess = << >>,
                  ![h].pc = AfterUpdateLastSeen(handlers[h].pkt.Type, ~ok)]
    /\ UNCHANGED << kvOnline, kvChunk, kvChunkExp, kvCount, ledger, blobs, reasm, crashed, codec, clock, srv, cli >>

\* UpdateLastSeen that changes last_seen in the record the store holds at the time of
\* the write, and writes nothing when the session is gone
UpdateLastSeenSetInPlace(h) ==
    /\ ~crashed
    /\ handlers[h].pc = "uls_set"
    /\ \E ok \in Outcomes :
           /\ faults' = IF ok THEN faults ELSE faults + 1
           /\ kvSession' = IF ok /\ kvSession[handlers[h].pkt.SenderID] # << >>
                 THEN [kvSession EXCEPT ![handlers[h].pkt.SenderID] =
                          << [kvSession[handlers[h].pkt.SenderID][1] EXCEPT !.LastSeen = Now] >>]
                 ELSE kvSession
           /\ kvSessionExp' = IF ok /\ kvSession[handlers[h].pkt.SenderID] # << >>
                 THEN [kvSessionExp EXCEPT ![handlers[h].pkt.SenderID] = clock + SessionTTL]
                 ELSE kvSessionExp
           /\ handlers' = [handlers EXCEPT ![h].sess = << >>,
                  ![h].pc = AfterUpdateLastSeen(handlers[h].pkt.Type, ~ok)]
    /\ UNCHANGED << kvOnline, kvChunk, kvChunkExp, kvCount, ledger, blobs, reasm, crashed, codec, clock, srv, cli >>

\* UpdateLastSeen, second command: SET session:<id> EX 300 with the record read before
UpdateLastSeenSet(h) ==
    /\ ~crashed
    /\ handlers[h].pc = "uls_set"
    /\ \E ok \in Outcomes :
           /\ faults' = IF ok THEN faults ELSE faults + 1
           /\ kvSession' = IF ok
                 THEN [kvSession EXCEPT ![handlers[h].pkt.SenderID] =
                          << [handlers[h].sess[1] EXCEPT !.LastSeen = Now] >>]
                 ELSE kvSession
           /\ kvSessionExp' = IF ok
                 THEN [kvSessionExp EXCEPT ![handlers[h].pkt.SenderID] = clock + SessionTTL]
                 ELSE kvSessionExp
           /\ handlers' = [handlers EXCEPT ![h].sess = << >>,
                  ![h].pc = AfterUpdateLastSeen(handlers[h].pkt.Type, ~ok)]
    /\ UNCHANGED << kvOnline, kvChunk, kvChunkExp, kvCount, ledger, blobs, reasm, crashed, codec, clock, srv, cli >>

\* handleVoiceData: SavePendingChunk, SET pending_message:<id>:chunk:<i> EX 600
HandleVoiceDataSave(h) ==
    /\ ~crashed
    /\ handlers[h].pc = "vd_save"
    /\ \E ok \in Outcomes :
           IF ok
           THEN /\ kvChunk' = [kvChunk EXCEPT
                       ![<< handlers[h].pkt.MessageID, handlers[h].pkt.ChunkIndex >>] =
                           << handlers[h].pkt.Payload >>]
                /\ kvChunkExp' = [kvChunkExp EXCEPT
                       ![<< handlers[h].pkt.MessageID, handlers[h].pkt.ChunkIndex >>] =
                           clock + PendingTTL]
                /\ handlers' = [handlers EXCEPT ![h].pc = "vd_incr"]
                /\ UNCHANGED faults
           ELSE /\ faults' = faults + 1
                /\ handlers' = [handlers EXCEPT ![h].pc = "done"]
                /\ UNCHANGED << kvChunk, kvChunkExp >>
    /\ UNCHANGED << kvSession, kvSessionExp, kvOnline, kvCount, ledger, blobs, reasm, crashed, codec, clock, srv, cli >>

\* handleVoiceData that sends the ACK although IncrementChunksReceived failed
HandleVoiceDataIncrAckAnyway(h) ==
    /\ ~crashed
    /\ handlers[h].pc = "vd_incr"
    /\ \E ok \in Outcomes :
           /\ faults' = IF ok THEN faults ELSE faults + 1
           /\ kvCount' = IF ok THEN [kvCount EXCEPT ![handlers[h].pkt.MessageID] = @ + 1]
                         ELSE kvCount
           /\ handlers' = [handlers EXCEPT
                  ![h].count = IF ok THEN kvCount[handlers[h].pkt.MessageID] + 1 ELSE 0,
                  ![h].pc = "vd_ack"]
    /\ UNCHANGED << kvSession, kvSessionExp, kvOnline, kvChunk, kvChunkExp, ledger, blobs, reasm, crashed, codec, clock, srv, cli >>

\* handleVoiceData over a counter that a packet advances by two
HandleVoiceDataIncrTwice(h) ==
    /\ ~crashed
    /\ handlers[h].pc = "vd_incr"
    /\ \E ok \in Outcomes :
           IF ok
           THEN /\ kvCount' = [kvCount EXCEPT ![handlers[h].pkt.MessageID] = @ + 2]
                /\ handlers' = [handlers EXCEPT
                       ![h].count = kvCount[handlers[h].pkt.MessageID] + 2,
                       ![h].pc = "vd_ack"]
                /\ UNCHANGED faults
           ELSE /\ faults' = faults + 1
                /\ handlers' = [handlers EXCEPT ![h].pc = "done"]
                /\ UNCHANGED kvCount
    /\ UNCHANGED << kvSession, kvSessionExp, kvOnline, kvChunk, kvChunkExp, ledger, blobs, reasm, crashed, codec, clock, srv, cli >>

\* handleVoiceData: IncrementChunksReceived, INCR pending_message:<id>:count
HandleVoiceDataIncr(h) ==
    /\ ~crashed
    /\ handlers[h].pc = "vd_incr"
    /\ \E ok \in Outcomes :
           IF ok
           THEN /\ kvCount' = [kvCount EXCEPT ![handlers[h].pkt.MessageID] = @ + 1]
                /\ handlers' = [handlers EXCEPT
                       ![h].count = kvCount[handlers[h].pkt.MessageID] + 1,
                       ![h].pc = "vd_ack"]
                /\ UNCHANGED faults
           ELSE /\ faults' = faults + 1
                /\ handlers' = [handlers EXCEPT ![h].pc = "done"]
                /\ UNCHANGED kvCount
    /\ UNCHANGED << kvSession, kvSessionExp, kvOnline, kvChunk, kvChunkExp, ledger, blobs, reasm, crashed, codec, clock, srv, cli >>

\* handleVoiceData that goes on to the completeness check with the ACK still unsent
HandleVoiceDataAckDeferred(h) ==
    /\ ~crashed
    /\ handlers[h].pc = "vd_ack"
    /\ handlers' = [handlers EXCEPT ![h].pc = "vd_check"]
    /\ UNCHANGED << stores, reasm, faults, crashed, codec, clock, srv, cli >>

\* handleVoiceData: the ACK
HandleVoiceDataAck(h) ==
    /\ ~crashed
    /\ handlers[h].pc = "vd_ack"
    /\ handlers' = [handlers EXCEPT
           ![h].out = SendPacket(@, NewAckPacket(handlers[h].pkt), handlers[h].addr),
           ![h].pc = "vd_check"]
    /\ UNCHANGED << stores, reasm, faults, crashed, codec, clock, srv, cli >>

\* the goroutine handleVoiceData starts for a complete message
NewReassembly(messageID, senderID, recipientID, totalChunks) ==
    [pc |-> "get", messageID |-> messageID, senderID |-> senderID,
     recipientID |-> recipientID, totalChunks |-> totalChunks, i |-> 0,
     chunks |-> << >>, data |-> << >>, objectPath |-> "", addr |-> "", out |-> << >>]

\* handleVoiceData that starts the reassembly when every chunk index is stored
HandleVoiceDataCheckStored(h) ==
    /\ ~crashed
    /\ handlers[h].pc = "vd_check"
    /\ handlers' = [handlers EXCEPT ![h].pc = "done"]
    /\ reasm' = IF \A i \in 0..(handlers[h].pkt.TotalChunks - 1) :
                      GetPendingChunk(handlers[h].pkt.MessageID, i) # << >>
                THEN Append(reasm, NewReassembly(handlers[h].pkt.MessageID,
                         handlers[h].pkt.SenderID, handlers[h].pkt.RecipientID,
                         handlers[h].pkt.TotalChunks))
                ELSE reasm
    /\ UNCHANGED << stores, faults, crashed, codec, clock, srv, cli >>

\* handleVoiceData that starts the reassembly whenever count >= TotalChunks
HandleVoiceDataCheckAtLeast(h) ==
    /\ ~crashed
    /\ handlers[h].pc = "vd_check"
    /\ handlers' = [handlers EXCEPT ![h].pc = "done"]
    /\ reasm' = IF handlers[h].count >= handlers[h].pkt.TotalChunks
                THEN Append(reasm, NewReassembly(handlers[h].pkt.MessageID,
                         handlers[h].pkt.SenderID, handlers[h].pkt.RecipientID,
                         handlers[h].pkt.TotalChunks))
                ELSE reasm
    /\ UNCHANGED << stores, faults, crashed, codec, clock, srv, cli >>

\* handleVoiceData: if count == TotalChunks, go processCompleteMessage
HandleVoiceDataCheck(h) ==
    /\ ~crashed
    /\ handlers[h].pc = "vd_check"
    /\ handlers' = [handlers EXCEPT ![h].pc = "done"]
    /\ reasm' = IF handlers[h].count = handlers[h].pkt.TotalChunks
                THEN Append(reasm, NewReassembly(handlers[h].pkt.MessageID,
                         handlers[h].pkt.SenderID, handlers[h].pkt.RecipientID,
                         handlers[h].pkt.TotalChunks))
                ELSE reasm
    /\ UNCHANGED << stores, faults, crashed, codec, clock, srv, cli >>

\* handleHeartbeat: the ACK after a successful UpdateLastSeen
HandleHeartbeatAck(h) ==
    /\ ~crashed
    /\ handlers[h].pc = "hb_ack"
    /\ handlers' = [handlers EXCEPT
           ![h].out = SendPacket(@, NewAckPacket(handlers[h].pkt), handlers[h].addr),
           ![h].pc = "done"]
    /\ UNCHANGED << stores, reasm, faults, crashed, codec, clock, srv, cli >>


(***************************************************************************)
(* Reassembly and delivery (processCompleteMessage, forwardMessageToRecipient) *)
(***************************************************************************)
\* the loop that fills the chunk list back to front
ProcessGetChunkPrepend(t) ==
    /\ ~crashed
    /\ reasm[t].pc = "get"
    /\ LET c == GetPendingChunk(reasm[t].messageID, reasm[t].i)
       IN  IF c = << >>
           THEN reasm' = [reasm EXCEPT ![t].pc = "fail"]
           ELSE LET cs == << c[1] >> \o reasm[t].chunks
                IN  reasm' = [reasm EXCEPT ![t].chunks = cs, ![t].i = @ + 1,
                        ![t].data = IF reasm[t].i + 1 = reasm[t].totalChunks
                                    THEN Concat(cs) ELSE << >>,
                        ![t].pc = IF reasm[t].i + 1 = reasm[t].totalChunks
                                  THEN "upload" ELSE "get"]
    /\ UNCHANGED << stores, handlers, faults, crashed, codec, clock, srv, cli >>

\* processCompleteMessage, steps 1 and 2: one GetPendingChunk of the loop;
\* after the last one the chunks are appended in index order
ProcessGetChunk(t) ==
    /\ ~crashed
    /\ reasm[t].pc = "get"
    /\ \E ok \in Outcomes :
           /\ faults' = IF ok THEN faults ELSE faults + 1
           /\ LET c == GetPendingChunk(reasm[t].messageID, reasm[t].i)
              IN  IF ~ok \/ c = << >>
                  THEN reasm' = [reasm EXCEPT ![t].pc = "fail"]
                  ELSE LET cs == Append(reasm[t].chunks, c[1])
                       IN  reasm' = [reasm EXCEPT ![t].chunks = cs, ![t].i = @ + 1,
                               ![t].data = IF reasm[t].i + 1 = reasm[t].totalChunks
                                           THEN Concat(cs) ELSE << >>,
                               ![t].pc = IF reasm[t].i + 1 = reasm[t].totalChunks
                                         THEN "upload" ELSE "get"]
    /\ UNCHANGED << stores, handlers, crashed, codec, clock, srv, cli >>

\* processCompleteMessage that marks the message failed and goes on to the upload
ProcessMarkFailedContinue(t) ==
    /\ ~crashed
    /\ reasm[t].pc = "fail"
    /\ \E ok \in Outcomes :
           /\ faults' = IF ok THEN faults ELSE faults + 1
           /\ ledger' = IF ok /\ ledger[reasm[t].messageID] # << >>
                 THEN [ledger EXCEPT ![reasm[t].messageID] =
                          << [ledger[reasm[t].messageID][1] EXCEPT !.Status = "failed"] >>]
                 ELSE ledger
    /\ reasm' = [reasm EXCEPT ![t].data = Concat(reasm[t].chunks), ![t].pc = "upload"]
    /\ UNCHANGED << kv, blobs, handlers, crashed, codec, clock, srv, cli >>

\* processCompleteMessage: updateMessageStatus(failed) after a chunk could not be read
ProcessMarkFailed(t) ==
    /\ ~crashed
    /\ reasm[t].pc = "fail"
    /\ \E ok \in Outcomes :
           /\ faults' = IF ok THEN faults ELSE faults + 1
           /\ ledger' = IF ok /\ ledger[reasm[t].messageID] # << >>
                 THEN [ledger EXCEPT ![reasm[t].messageID] =
                          << [ledger[reasm[t].messageID][1] EXCEPT !.Status = "failed"] >>]
                 ELSE ledger
    /\ reasm' = [reasm EXCEPT ![t].pc = "done"]
    /\ UNCHANGED << kv, blobs, handlers, crashed, codec, clock, srv, cli >>

\* processCompleteMessage, step 3: UploadVoiceMessage; an error is logged only
ProcessUpload(t) ==
    /\ ~crashed
    /\ reasm[t].pc = "upload"
    /\ \E ok \in Outcomes :
           /\ faults' = IF ok THEN faults ELSE faults + 1
           /\ blobs' = IF ok THEN [blobs EXCEPT ![reasm[t].messageID] = << reasm[t].data >>]
                       ELSE blobs
           /\ reasm' = [reasm EXCEPT ![t].objectPath = IF ok THEN "messages" ELSE "",
                                     ![t].pc = "create"]
    /\ UNCHANGED << kv, ledger, handlers, crashed, codec, clock, srv, cli >>

\* the row CreateMessage inserts (transmitted_at is not among the inserted columns)
NewRow(t) ==
    [SenderID |-> reasm[t].senderID, RecipientID |-> reasm[t].recipientID,
     FilePath |-> reasm[t].objectPath, FileSize |-> Len(reasm[t].data),
     AudioFormat |-> "opus", TotalChunks |-> reasm[t].totalChunks,
     ChunksReceived |-> reasm[t].totalChunks, Status |-> "transmitted",
     CreatedAt |-> Now, TransmittedAt |-> << >>, DeliveredAt |-> << >>,
     ListenedAt |-> << >>]

\* processCompleteMessage, step 4: CreateMessage; an error is logged only
ProcessCreateMessage(t) ==
    /\ ~crashed
    /\ reasm[t].pc = "create"
    /\ \E ok \in Outcomes :
           /\ faults' = IF ok THEN faults ELSE faults + 1
           /\ ledger' = IF /\ ok
                           /\ ledger[reasm[t].messageID] = << >>
                           /\ reasm[t].senderID \in RegisteredUsers
                           /\ reasm[t].recipientID \in RegisteredUsers
                        THEN [ledger EXCEPT ![reasm[t].messageID] = << NewRow(t) >>]
                        ELSE ledger
    /\ reasm' = [reasm EXCEPT ![t].pc = "online"]
    /\ UNCHANGED << kv, blobs, handlers, crashed, codec, clock, srv, cli >>

\* processCompleteMessage, step 5: IsUserOnline(recipientID)
ProcessIsOnline(t) ==
    /\ ~crashed
    /\ reasm[t].pc = "online"
    /\ \E ok \in Outcomes :
           /\ faults' = IF ok THEN faults ELSE faults + 1
           /\ reasm' = [reasm EXCEPT ![t].pc =
                  IF ~ok THEN "done"
                  ELSE IF IsUserOnline(reasm[t].recipientID) THEN "fwd_get"
                  ELSE "cleanup"]
    /\ UNCHANGED << stores, handlers, crashed, codec, clock, srv, cli >>

\* DeletePendingMessage that removes the chunk keys and leaves the counter
ProcessCleanupChunksOnly(t) ==
    /\ ~crashed
    /\ reasm[t].pc = "cleanup"
    /\ \E ok \in Outcomes :
           /\ faults' = IF ok THEN faults ELSE faults + 1
           /\ kvChunk' = IF ok
                 THEN [k \in DOMAIN kvChunk |->
                          IF k \in PendingKeys(reasm[t].messageID, reasm[t].totalChunks)
                          THEN << >> ELSE kvChunk[k]]
                 ELSE kvChunk
           /\ kvChunkExp' = IF ok
                 THEN [k \in DOMAIN kvChunkExp |->
                          IF k \in PendingKeys(reasm[t].messageID, reasm[t].totalChunks)
                          THEN 0 ELSE kvChunkExp[k]]
                 ELSE kvChunkExp
    /\ reasm' = [reasm EXCEPT ![t].pc = "done"]
    /\ UNCHANGED << kvSession, kvSessionExp, kvOnline, kvCount, ledger, blobs, handlers, crashed, codec, clock, srv, cli >>

\* processCompleteMessage, step 6 (offline branch): DeletePendingMessage
ProcessCleanup(t) ==
    /\ ~crashed
    /\ reasm[t].pc = "cleanup"
    /\ \E ok \in Outcomes :
           /\ faults' = IF ok THEN faults ELSE faults + 1
           /\ kvChunk' = IF ok
                 THEN [k \in DOMAIN kvChunk |->
                          IF k \in PendingKeys(reasm[t].messageID, reasm[t].totalChunks)
                          THEN << >> ELSE kvChunk[k]]
                 ELSE kvChunk
           /\ kvChunkExp' = IF ok
                 THEN [k \in DOMAIN kvChunkExp |->
                          IF k \in PendingKeys(reasm[t].messageID, reasm[t].totalChunks)
                          THEN 0 ELSE kvChunkExp[k]]
                 ELSE kvChunkExp
           /\ kvCount' = IF ok THEN [kvCount EXCEPT ![reasm[t].messageID] = 0] ELSE kvCount
    /\ reasm' = [reasm EXCEPT ![t].pc = "done"]
    /\ UNCHANGED << kvSession, kvSessionExp, kvOnline, ledger, blobs, handlers, crashed, codec, clock, srv, cli >>

\* forwardMessageToRecipient: GetSession(recipientID) and its address
ForwardGetSession(t) ==
    /\ ~crashed
    /\ reasm[t].pc = "fwd_get"
    /\ \E ok \in Outcomes :
           /\ faults' = IF ok THEN faults ELSE faults + 1
           /\ IF ok /\ GetSession(reasm[t].recipientID) # << >>
              THEN reasm' = [reasm EXCEPT
                       ![t].addr = GetSession(reasm[t].recipientID)[1].Address,
                       ![t].pc = "fwd_send"]
              ELSE reasm' = [reasm EXCEPT ![t].pc = "done"]
    /\ UNCHANGED << stores, handlers, crashed, codec, clock, srv, cli >>

Min(a, b) == IF a < b THEN a ELSE b

\* the loop indices at which data[start:end] is taken with start > len(data)
PanicIndices(t) ==
    {i \in 0..(reasm[t].totalChunks - 1) : i * MaxPayloadSize > Len(reasm[t].data)}

\* the number of packets the loop sends before it ends or panics
ForwardCount(t) ==
    IF PanicIndices(t) = {} THEN reasm[t].totalChunks
    ELSE CHOOSE i \in PanicIndices(t) : \A j \in PanicIndices(t) : i <= j

RECURSIVE ForwardOut(_, _, _)
\* the socket writes of the first n rounds of the loop
ForwardOut(t, out, n) ==
    IF n = 0 THEN out
    ELSE LET i     == n - 1
             start == i * MaxPayloadSize
             end   == Min(start + MaxPayloadSize, Len(reasm[t].data))
         IN  SendPacket(ForwardOut(t, out, n - 1),
                 NewVoiceDataPacket(reasm[t].senderID, reasm[t].recipientID,
                     reasm[t].messageID, i, reasm[t].totalChunks,
                     SubSeq(reasm[t].data, start + 1, end)),
                 reasm[t].addr)

\* forwardMessageToRecipient: the loop that cuts the data at MaxPayloadSize and sends
ForwardSend(t) ==
    /\ ~crashed
    /\ reasm[t].pc = "fwd_send"
    /\ reasm' = [reasm EXCEPT ![t].out = ForwardOut(t, @, ForwardCount(t)),
                    ![t].pc = IF PanicIndices(t) = {} THEN "fwd_update" ELSE "panic"]
    /\ crashed' = (PanicIndices(t) # {})
    /\ UNCHANGED << stores, handlers, faults, codec, clock, srv, cli >>

\* forwardMessageToRecipient: UpdateMessage with a row that has only ID, Status and
\* DeliveredAt set; the statement writes every column it lists
ForwardUpdate(t) ==
    /\ ~crashed
    /\ reasm[t].pc = "fwd_update"
    /\ \E ok \in Outcomes :
           /\ faults' = IF ok THEN faults ELSE faults + 1
           /\ ledger' = IF ok /\ ledger[reasm[t].messageID] # << >>
                 THEN [ledger EXCEPT ![reasm[t].messageID] =
                          << [ledger[reasm[t].messageID][1] EXCEPT
                                 !.ChunksReceived = 0, !.Status = "delivered",
                                 !.TransmittedAt = << >>, !.DeliveredAt = << Now >>,
                                 !.ListenedAt = << >>] >>]
                 ELSE ledger
    /\ reasm' = [reasm EXCEPT ![t].pc = "done"]
    /\ UNCHANGED << kv, blobs, handlers, crashed, codec, clock, srv, cli >>

(***************************************************************************)
(* The engine                                                              *)
(***************************************************************************)
HandlerIds == 1..Len(handlers)
ReasmIds == 1..Len(reasm)

Next ==
    \/ \E d \in Datagrams : Listen(d)
    \/ \E h \in HandlerIds : HandlePacket(h)
    \/ \E h \in HandlerIds : HandleAuth(h)
    \/ \E h \in HandlerIds : HandleAuthSadd(h)
    \/ \E h \in HandlerIds : HandleAuthAck(h)
    \/ \E h \in HandlerIds : HandleVoiceData(h)
    \/ \E h \in HandlerIds : UpdateLastSeenGet(h)
    \/ \E h \in HandlerIds : UpdateLastSeenSet(h)
    \/ \E h \in HandlerIds : HandleVoiceDataSave(h)
    \/ \E h \in HandlerIds : HandleVoiceDataIncr(h)
    \/ \E h \in HandlerIds : HandleVoiceDataAck(h)
    \/ \E h \in HandlerIds : HandleVoiceDataCheck(h)
    \/ \E h \in HandlerIds : HandleHeartbeatAck(h)
    \/ \E t \in ReasmIds : ProcessGetChunk(t)
    \/ \E t \in ReasmIds : ProcessMarkFailed(t)
    \/ \E t \in ReasmIds : ProcessUpload(t)
    \/ \E t \in ReasmIds : ProcessCreateMessage(t)
    \/ \E t \in ReasmIds : ProcessIsOnline(t)
    \/ \E t \in ReasmIds : ProcessCleanup(t)
    \/ \E t \in ReasmIds : ForwardGetSession(t)
    \/ \E t \in ReasmIds : ForwardSend(t)
    \/ \E t \in ReasmIds : ForwardUpdate(t)

Spec == Init /\ [][Next]_vars

(***************************************************************************)
(* EdgeSpec: the engine fed by a peer that sends what Marshal would never  *)
(* produce                                                                 *)
(***************************************************************************)
\* the bytes of p as a peer puts them on the wire without Marshal's length guard
PeerDatagram(p) ==
    WriteFields([p EXCEPT !.Checksum = ChecksumIEEE(p.Payload),
                          !.PayloadLen = Len(p.Payload)]).data

\* a payload one byte longer than MaxPayloadSize
OversizePayload == [i \in 1..(MaxPayloadSize + 1) |-> 67]

\* the chunk of Msg2 in a packet of protocol revision 2
Version2Datagram ==
    PeerDatagram([NewVoiceDataPacket(User1, User2, Msg2, 0, TotalOf(Msg2), ChunkOf(Msg2, 0))
                     EXCEPT !.Version = ProtocolVersion + 1])

\* a VOICE_DATA datagram carrying 1401 payload bytes under a matching checksum
OversizeDatagram ==
    PeerDatagram(NewVoiceDataPacket(User1, User2, Msg2, 0, TotalOf(Msg2), OversizePayload))

EdgeDatagrams ==
    { [data |-> Marshal(NewAuthPacket(UuidNil, Token1, AuthMsgId)).data, addr |-> "a1"],
      [data |-> Version2Datagram, addr |-> "a1"],
      [data |-> OversizeDatagram, addr |-> "a1"] }

EdgeNext ==
    \/ \E d \in EdgeDatagrams : Listen(d)
    \/ \E h \in HandlerIds : HandlePacket(h)
    \/ \E h \in HandlerIds : HandleAuth(h)
    \/ \E h \in HandlerIds : HandleAuthSadd(h)
    \/ \E h \in HandlerIds : HandleAuthAck(h)
    \/ \E h \in HandlerIds : HandleVoiceData(h)
    \/ \E h \in HandlerIds : UpdateLastSeenGet(h)
    \/ \E h \in HandlerIds : UpdateLastSeenSet(h)
    \/ \E h \in HandlerIds : HandleVoiceDataSave(h)
    \/ \E h \in HandlerIds : HandleVoiceDataIncr(h)
    \/ \E h \in HandlerIds : HandleVoiceDataAck(h)
    \/ \E h \in HandlerIds : HandleVoiceDataCheck(h)
    \/ \E t \in ReasmIds : ProcessGetChunk(t)
    \/ \E t \in ReasmIds : ProcessMarkFailed(t)
    \/ \E t \in ReasmIds : ProcessUpload(t)
    \/ \E t \in ReasmIds : ProcessCreateMessage(t)
    \/ \E t \in ReasmIds : ProcessIsOnline(t)
    \/ \E t \in ReasmIds : ProcessCleanup(t)

EdgeSpec == Init /\ [][EdgeNext]_vars

(***************************************************************************)
(* PullSpec: a sender uploads a message and then asks to download it       *)
(***************************************************************************)
\* Client.DownloadMessage of User1, who sent Msg2 and is not its recipient
DownloadDatagram == Marshal(NewDownloadMessagePacket(User1, Msg2)).data

PullDatagrams ==
    { [data |-> Marshal(NewAuthPacket(UuidNil, Token1, AuthMsgId)).data, addr |-> "a1"],
      [data |-> VoiceDatagram(Msg2, 0), addr |-> "a1"],
      [data |-> DownloadDatagram, addr |-> "a1"] }

PullNext ==
    \/ \E d \in PullDatagrams : Listen(d)
    \/ \E h \in HandlerIds : HandlePacket(h)
    \/ \E h \in HandlerIds : HandleAuth(h)
    \/ \E h \in HandlerIds : HandleAuthSadd(h)
    \/ \E h \in HandlerIds : HandleAuthAck(h)
    \/ \E h \in HandlerIds : HandleVoiceData(h)
    \/ \E h \in HandlerIds : UpdateLastSeenGet(h)
    \/ \E h \in HandlerIds : UpdateLastSeenSet(h)
    \/ \E h \in HandlerIds : HandleVoiceDataSave(h)
    \/ \E h \in HandlerIds : HandleVoiceDataIncr(h)
    \/ \E h \in HandlerIds : HandleVoiceDataAck(h)
    \/ \E h \in HandlerIds : HandleVoiceDataCheck(h)
    \/ \E t \in ReasmIds : ProcessGetChunk(t)
    \/ \E t \in ReasmIds : ProcessMarkFailed(t)
    \/ \E t \in ReasmIds : ProcessUpload(t)
    \/ \E t \in ReasmIds : ProcessCreateMessage(t)
    \/ \E t \in ReasmIds : ProcessIsOnline(t)
    \/ \E t \in ReasmIds : ProcessCleanup(t)

PullSpec == Init /\ [][PullNext]_vars

(***************************************************************************)
(* RelaySpec: User1 sends a message to User1, whose session is the         *)
(* recipient's session                                                     *)
(***************************************************************************)
\* chunk i of Msg3 in a packet that announces total chunks
SelfDatagram(i, total) ==
    Marshal(NewVoiceDataPacket(User1, User1, Msg3, i, total, ChunkOf(Msg3, i))).data

\* the recipient's acknowledgement of forwarded chunk i of Msg3
RecipientAckDatagram(i, total) ==
    Marshal(NewAckPacket(NewVoiceDataPacket(User1, User1, Msg3, i, total,
                                            ChunkOf(Msg3, i)))).data

RelayDatagrams ==
    { [data |-> Marshal(NewAuthPacket(UuidNil, Token1, AuthMsgId)).data, addr |-> "a1"],
      [data |-> SelfDatagram(0, TotalOf(Msg3)), addr |-> "a1"],
      [data |-> SelfDatagram(1, TotalOf(Msg3)), addr |-> "a1"],
      [data |-> SelfDatagram(0, 1), addr |-> "a1"],
      [data |-> RecipientAckDatagram(0, 1), addr |-> "a1"] }

RelayNext ==
    \/ \E d \in RelayDatagrams : Listen(d)
    \/ \E h \in HandlerIds : HandlePacket(h)
    \/ \E h \in HandlerIds : HandleAuth(h)
    \/ \E h \in HandlerIds : HandleAuthSadd(h)
    \/ \E h \in HandlerIds : HandleAuthAck(h)
    \/ \E h \in HandlerIds : HandleVoiceData(h)
    \/ \E h \in HandlerIds : UpdateLastSeenGet(h)
    \/ \E h \in HandlerIds : UpdateLastSeenSet(h)
    \/ \E h \in HandlerIds : HandleVoiceDataSave(h)
    \/ \E h \in HandlerIds : HandleVoiceDataIncr(h)
    \/ \E h \in HandlerIds : HandleVoiceDataAck(h)
    \/ \E h \in HandlerIds : HandleVoiceDataCheck(h)
    \/ \E t \in ReasmIds : ProcessGetChunk(t)
    \/ \E t \in ReasmIds : ProcessMarkFailed(t)
    \/ \E t \in ReasmIds : ProcessUpload(t)
    \/ \E t \in ReasmIds : ProcessCreateMessage(t)
    \/ \E t \in ReasmIds : ProcessIsOnline(t)
    \/ \E t \in ReasmIds : ProcessCleanup(t)
    \/ \E t \in ReasmIds : ForwardGetSession(t)
    \/ \E t \in ReasmIds : ForwardSend(t)
    \/ \E t \in ReasmIds : ForwardUpdate(t)

RelaySpec == Init /\ [][RelayNext]_vars

(***************************************************************************)
(* TtlSpec: the engine while time passes and the key-value store expires   *)
(* its keys                                                                *)
(***************************************************************************)
\* the seconds one step of the clock takes
TickSeconds == SessionTTL \div 2

\* whether a key that expires at exp is gone at time now
Expired(exp, now) == exp <= now

\* time passes: the store drops the session keys and chunk keys whose lifetime is over
\* (the counter keys and the set online_users have no lifetime)
Tick ==
    /\ ~crashed
    /\ clock < MaxTicks * TickSeconds
    /\ clock' = clock + TickSeconds
    /\ kvSession' = [u \in DOMAIN kvSession |->
           IF Expired(kvSessionExp[u], clock + TickSeconds) THEN << >> ELSE kvSession[u]]
    /\ kvSessionExp' = [u \in DOMAIN kvSessionExp |->
           IF Expired(kvSessionExp[u], clock + TickSeconds) THEN 0 ELSE kvSessionExp[u]]
    /\ kvChunk' = [k \in DOMAIN kvChunk |->
           IF Expired(kvChunkExp[k], clock + TickSeconds) THEN << >> ELSE kvChunk[k]]
    /\ kvChunkExp' = [k \in DOMAIN kvChunkExp |->
           IF Expired(kvChunkExp[k], clock + TickSeconds) THEN 0 ELSE kvChunkExp[k]]
    /\ UNCHANGED << kvOnline, kvCount, ledger, blobs, handlers, reasm, faults, crashed, codec, srv, cli >>

\* Client heartbeat of User1
HeartbeatDatagram == Marshal(NewPacket(PacketTypeHeartbeat, User1, UuidNil, AuthMsgId)).data

TtlDatagrams ==
    { [data |-> Marshal(NewAuthPacket(UuidNil, Token1, AuthMsgId)).data, addr |-> "a1"],
      [data |-> HeartbeatDatagram, addr |-> "a1"],
      [data |-> VoiceDatagram(Msg2, 0), addr |-> "a1"],
      [data |-> VoiceDatagram(Msg1, 0), addr |-> "a1"] }

TtlNext ==
    \/ \E d \in TtlDatagrams : Listen(d)
    \/ \E h \in HandlerIds : HandlePacket(h)
    \/ \E h \in HandlerIds : HandleAuth(h)
    \/ \E h \in HandlerIds : HandleAuthSadd(h)
    \/ \E h \in HandlerIds : HandleAuthAck(h)
    \/ \E h \in HandlerIds : HandleVoiceData(h)
    \/ \E h \in HandlerIds : UpdateLastSeenGet(h)
    \/ \E h \in HandlerIds : UpdateLastSeenSet(h)
    \/ \E h \in HandlerIds : HandleVoiceDataSave(h)
    \/ \E h \in HandlerIds : HandleVoiceDataIncr(h)
    \/ \E h \in HandlerIds : HandleVoiceDataAck(h)
    \/ \E h \in HandlerIds : HandleVoiceDataCheck(h)
    \/ \E h \in HandlerIds : HandleHeartbeatAck(h)
    \/ \E t \in ReasmIds : ProcessGetChunk(t)
    \/ \E t \in ReasmIds : ProcessMarkFailed(t)
    \/ \E t \in ReasmIds : ProcessUpload(t)
    \/ \E t \in ReasmIds : ProcessCreateMessage(t)
    \/ \E t \in ReasmIds : ProcessIsOnline(t)
    \/ \E t \in ReasmIds : ProcessCleanup(t)
    \/ Tick

TtlSpec == Init /\ [][TtlNext]_vars


(***************************************************************************)
(* CodecSpec: Marshal and Unmarshal applied to bounded inputs              *)
(***************************************************************************)
ByteVals == {0, 65, 255}

RECURSIVE PayloadsUpTo(_)
\* every payload of at most n bytes over ByteVals
PayloadsUpTo(n) ==
    IF n = 0 THEN {<< >>}
    ELSE LET shorter == PayloadsUpTo(n - 1)
         IN  shorter \cup {Append(q, b) : q \in {r \in shorter : Len(r) = n - 1}, b \in ByteVals}

\* a uuid all of whose bytes differ
MixedUuid == [i \in 1..16 |-> 16 * i - 1]

\* well-formed packets; Checksum and PayloadLen hold whatever the caller left there
SmallPackets ==
    { [Version |-> ProtocolVersion, Type |-> ty, MessageID |-> mid, ChunkIndex |-> ci,
       TotalChunks |-> ci + 1, SenderID |-> sid, RecipientID |-> User2,
       Checksum |-> stale, PayloadLen |-> stale[1] % 8, Payload |-> pl] :
         ty \in {PacketTypeVoiceData, PacketTypeAck}, mid \in {MixedUuid},
         ci \in {0, 70000}, sid \in {User1},
         stale \in {<< 0, 0 >>, << 4660, 22136 >>}, pl \in PayloadsUpTo(MaxSmallLen) }

\* packets around the payload limit
LargePackets ==
    { NewVoiceDataPacket(User1, User2, Msg1, 0, 1, [i \in 1..n |-> 65]) :
         n \in {MaxPayloadSize - 1, MaxPayloadSize, MaxPayloadSize + 1} }

CodecInit ==
    /\ EngineInit
    /\ codec \in {[CodecIdle EXCEPT !.stage = "input", !.in = p] :
                     p \in SmallPackets \cup LargePackets}

\* p.Marshal()
CodecMarshal ==
    /\ codec.stage = "input"
    /\ codec' = [codec EXCEPT !.stage = "marshalled", !.out = Marshal(codec.in)]
    /\ UNCHANGED << stores, handlers, reasm, faults, crashed, clock, srv, cli >>

\* Unmarshal of what Marshal returned
CodecUnmarshal ==
    /\ codec.stage = "marshalled"
    /\ codec.out.err = ""
    /\ codec' = [codec EXCEPT !.stage = "decoded", !.data = codec.out.data,
                              !.dec = Unmarshal(codec.out.data)]
    /\ UNCHANGED << stores, handlers, reasm, faults, crashed, clock, srv, cli >>

\* the payload positions at which a bit is flipped: all of a short payload,
\* the first and the last byte of a long one
FlipPositions(n) == IF n <= MaxSmallLen + 1 THEN 1..n ELSE {1, n}

\* data with bit `bit` of byte k inverted
FlipBit(data, k, bit) == [data EXCEPT ![k] = Xor8(@, 2 ^ bit)]

\* Unmarshal of what Marshal returned, with one bit of the payload region inverted
CodecFlip(k, bit) ==
    /\ codec.stage = "marshalled"
    /\ codec.out.err = ""
    /\ LET d == FlipBit(codec.out.data, 64 + k, bit)
       IN  codec' = [codec EXCEPT !.stage = "flipped", !.data = d, !.dec = Unmarshal(d)]
    /\ UNCHANGED << stores, handlers, reasm, faults, crashed, clock, srv, cli >>

\* Unmarshal of the first n bytes of what Marshal returned, n below the header size
CodecTruncate(n) ==
    /\ codec.stage = "marshalled"
    /\ codec.out.err = ""
    /\ LET d == SubSeq(codec.out.data, 1, n)
       IN  codec' = [codec EXCEPT !.stage = "truncated", !.data = d, !.dec = Unmarshal(d)]
    /\ UNCHANGED << stores, handlers, reasm, faults, crashed, clock, srv, cli >>

CodecNext ==
    \/ CodecMarshal
    \/ CodecUnmarshal
    \/ \E k \in FlipPositions(Len(codec.in.Payload)), bit \in 0..7 : CodecFlip(k, bit)
    \/ \E n \in 0..63 : CodecTruncate(n)

CodecSpec == CodecInit /\ [][CodecNext]_vars

(***************************************************************************)
(* Properties of the codec                                                 *)
(***************************************************************************)
\* C8: for every well-formed packet P with version 1 and a payload of at most 1400
\* bytes, Unmarshal(Marshal(P)) succeeds and returns P in every field, with the
\* checksum CRC32_IEEE(payload) and payload_len |payload| (empty payload included).
RoundTrip ==
    codec.stage = "decoded" =>
        /\ codec.dec.err = ""
        /\ codec.dec.pkt = [codec.in EXCEPT !.Checksum = ChecksumIEEE(codec.in.Payload),
                                            !.PayloadLen = Len(codec.in.Payload)]
        /\ codec.dec.pkt = codec.out.pkt

\* a round trip of the payload "A", whose CRC-32 is 0xD3D99E8B, from a packet whose
\* checksum field held something else
RoundTripWitness ==
    /\ codec.stage = "decoded"
    /\ codec.in.Payload = << 65 >>
    /\ codec.in.Checksum # << 54233, 40587 >>
    /\ codec.in.ChunkIndex = 70000
    /\ codec.dec.err = ""
    /\ codec.dec.pkt.Checksum = << 54233, 40587 >>
    /\ codec.dec.pkt.Payload = << 65 >>

\* C9: flipping any single bit of the payload region of an encoded packet with a
\* non-empty payload makes Unmarshal fail with a checksum mismatch.
FlipRejected ==
    codec.stage = "flipped" => codec.dec.err = "checksum mismatch"

\* a flipped bit in the last byte of a full-size payload, rejected
FlipRejectedWitness ==
    /\ codec.stage = "flipped"
    /\ Len(codec.in.Payload) = MaxPayloadSize
    /\ codec.data[64 + MaxPayloadSize] # codec.out.data[64 + MaxPayloadSize]
    /\ codec.dec.err = "checksum mismatch"

\* C10: Marshal fails for a payload longer than 1400 bytes and succeeds at exactly
\* 1400; Unmarshal fails with "packet too small" for every input shorter than 48 bytes.
SizeGuard ==
    /\ codec.stage = "marshalled" =>
          /\ (Len(codec.in.Payload) > MaxPayloadSize => codec.out.err = "payload too large")
          /\ (Len(codec.in.Payload) <= MaxPayloadSize =>
                 codec.out.err = "" /\ Len(codec.out.data) = 64 + Len(codec.in.Payload))
    /\ (codec.stage = "truncated" /\ Len(codec.data) < 48) =>
          codec.dec.err = "packet too small"

\* Marshal refusing a payload of 1401 bytes
SizeGuardWitness ==
    /\ codec.stage = "marshalled"
    /\ Len(codec.in.Payload) = 1401
    /\ codec.out.err = "payload too large"


(***************************************************************************)
(* The client's side of authentication (cmd/client/main.go)                *)
(***************************************************************************)
\* Client.handlePacket: the channel a received packet is put on
ClientHandlePacket(packet) ==
    IF packet.Type \in {PacketTypeAuthAck, PacketTypeAck} THEN "ackChan"
    ELSE IF packet.Type = PacketTypeVoiceData THEN "dataChan"
    ELSE IF packet.Type = PacketTypeMessageList THEN "listChan"
    ELSE "none"

\* Client.Authenticate once the reply to its AUTH packet has arrived
ClientAuthenticate(reply) ==
    IF ClientHandlePacket(reply) # "ackChan"
    THEN [authenticated |-> FALSE, userID |-> UuidNil, err |-> "authentication timeout"]
    ELSE IF reply.Type = PacketTypeAuthAck
    THEN [authenticated |-> TRUE, userID |-> reply.RecipientID, err |-> ""]
    ELSE [authenticated |-> FALSE, userID |-> UuidNil, err |-> "unexpected response type"]

(***************************************************************************)
(* Properties of the engine                                                *)
(***************************************************************************)
\* the reassembly tasks started for message m
TasksOf(m) == {t \in ReasmIds : reasm[t].messageID = m}

\* C1: across the VOICE_DATA handlers of one message, processCompleteMessage is
\* started exactly once per message_id: no second reassembly of a message is ever
\* spawned.
AssemblyStartedOnce ==
    \A m \in MsgIds : Cardinality(TasksOf(m)) <= 1

\* C2: whatever the order in which the chunks of a message arrive, the payload
\* processCompleteMessage assembles is the message's byte sequence B: its chunks
\* joined in index order 0..N-1.
ReassemblyCorrect ==
    \A t \in ReasmIds :
        reasm[t].i = reasm[t].totalChunks =>
            /\ reasm[t].chunks = [k \in 1..TotalOf(reasm[t].messageID) |->
                                     ChunkOf(reasm[t].messageID, k - 1)]
            /\ reasm[t].data = BytesOf(reasm[t].messageID)

\* the two chunks of Msg1 arrived last chunk first, and the task assembled "AABB"
ReassemblyCorrectWitness ==
    \E t \in ReasmIds, h0, h1 \in HandlerIds :
        /\ h1 < h0
        /\ handlers[h1].pkt.MessageID = Msg1 /\ handlers[h1].pkt.ChunkIndex = 1
        /\ handlers[h1].count = 1
        /\ handlers[h0].pkt.MessageID = Msg1 /\ handlers[h0].pkt.ChunkIndex = 0
        /\ handlers[h0].count = 2
        /\ reasm[t].messageID = Msg1
        /\ reasm[t].i = 2
        /\ reasm[t].data = << 65, 65, 66, 66 >>

\* C3: a VOICE_DATA packet whose sender has no session is dropped in silence: the
\* handler returns at once, nothing is sent, no chunk or counter is written, no
\* ledger row or blob is created, and the online set stays as it was.
UnknownSenderDropped ==
    [][\A h \in HandlerIds :
          ( /\ handlers[h].pc = "handleVoiceData"
            /\ GetSession(handlers[h].pkt.SenderID) = << >>
            /\ handlers'[h] # handlers[h] )
          => ( /\ handlers'[h].pc = "done"
               /\ handlers'[h].out = << >>
               /\ reasm' = reasm
               /\ stores' = stores )]_vars

\* a VOICE_DATA handler that returned without a reply while its sender had no session
UnknownSenderDroppedWitness ==
    \E h \in HandlerIds :
        /\ handlers[h].pkt.Type = PacketTypeVoiceData
        /\ handlers[h].pc = "done"
        /\ handlers[h].out = << >>
        /\ faults = 0
        /\ kvSession[handlers[h].pkt.SenderID] = << >>
        /\ handlers[h].pkt.SenderID \notin kvOnline
        /\ kvCount[handlers[h].pkt.MessageID] = 0
        /\ kvChunk[<< handlers[h].pkt.MessageID, handlers[h].pkt.ChunkIndex >>] = << >>

\* C4: when handleAuth accepts a token of user u, CreateSession writes the session
\* under u, the token's user id (not the packet's sender_id), with the datagram's
\* source address, and then makes u a member of online_users.
AuthCreatesSession ==
    [][\A h \in HandlerIds :
          /\ (handlers[h].pc = "handleAuth" /\ handlers'[h].pc = "auth_sadd") =>
                LET u == ValidateToken(handlers[h].pkt.Payload).UserID
                IN  /\ kvSession'[u] # << >>
                    /\ kvSession'[u][1].UserID = u
                    /\ kvSession'[u][1].Address = handlers[h].addr
                    /\ \A v \in UserIds \ {u} : kvSession'[v] = kvSession[v]
          /\ (handlers[h].pc = "auth_sadd" /\ handlers'[h].pc = "auth_ack") =>
                LET u == ValidateToken(handlers[h].pkt.Payload).UserID
                IN  IsUserOnline(u)']_vars

\* an AUTH packet with sender_id zero and a token of User1 was handled: the session
\* is User1's, at the source address, and User1 is online
AuthCreatesSessionWitness ==
    \E h \in HandlerIds :
        /\ handlers[h].pkt.Type = PacketTypeAuth
        /\ handlers[h].pkt.Payload = Token1
        /\ handlers[h].pkt.SenderID = UuidNil
        /\ handlers[h].pc = "done"
        /\ Len(handlers[h].out) = 1
        /\ kvSession[User1] # << >>
        /\ kvSession[User1][1].Address = handlers[h].addr
        /\ kvSession[UuidNil] = << >>
        /\ IsUserOnline(User1)

\* C5: on a successful AUTH the reply is an AUTH_ACK whose recipient_id is the
\* authenticated user, so that the client's Authenticate ends authenticated with
\* that id.
AuthReplyIsAuthAck ==
    [][\A h \in HandlerIds :
          (handlers[h].pc = "auth_ack" /\ handlers'[h].pc = "done") =>
              LET reply == Unmarshal(handlers'[h].out[1].data).pkt
              IN  /\ reply.Type = PacketTypeAuthAck
                  /\ reply.RecipientID = handlers[h].uid
                  /\ ClientAuthenticate(reply).authenticated
                  /\ ClientAuthenticate(reply).userID = handlers[h].uid]_vars

\* C6: when the token of an AUTH packet does not validate, the handler sends exactly
\* one packet, to the source address: an ERROR with payload "Invalid token" and the
\* request's message_id; it writes no session and no online-set entry.
InvalidTokenRejected ==
    [][\A h \in HandlerIds :
          ( /\ handlers[h].pc = "handleAuth"
            /\ ValidateToken(handlers[h].pkt.Payload).err # ""
            /\ handlers'[h] # handlers[h] )
          => ( /\ handlers'[h].pc = "done"
               /\ Len(handlers'[h].out) = 1
               /\ handlers'[h].out[1].to = handlers[h].addr
               /\ LET r == Unmarshal(handlers'[h].out[1].data)
                  IN  /\ r.err = ""
                      /\ r.pkt.Type = PacketTypeError
                      /\ r.pkt.Payload = InvalidTokenText
                      /\ r.pkt.MessageID = handlers[h].pkt.MessageID
               /\ kvSession' = kvSession
               /\ kvOnline' = kvOnline )]_vars

\* an AUTH with a bad token was answered with one ERROR and nobody came online
InvalidTokenRejectedWitness ==
    \E h \in HandlerIds :
        /\ handlers[h].pkt.Type = PacketTypeAuth
        /\ handlers[h].pkt.Payload = TokenBad
        /\ handlers[h].pc = "done"
        /\ Len(handlers[h].out) = 1
        /\ handlers[h].out[1].data[2] = PacketTypeError
        /\ \A u \in UserIds : kvSession[u] = << >>
        /\ kvOnline = {}

\* a datagram Unmarshal must refuse: shorter than 48 bytes, or carrying a non-empty
\* payload whose CRC-32 is not the checksum field
Undecodable(data) ==
    \/ Len(data) < 48
    \/ /\ Len(data) > 64
       /\ U16(SubSeq(data, 63, 64)) > 0
       /\ ChecksumIEEE(ReadAt(data, 64, U16(SubSeq(data, 63, 64)))) # W32(SubSeq(data, 59, 62))

\* C7: a datagram that fails decoding is dropped by handlePacket: no reply of any
\* type and no state change (no chunk, no counter, no session refresh, no ledger row).
MalformedDropped ==
    [][\A h \in HandlerIds :
          ( /\ handlers[h].pc = "handlePacket"
            /\ Undecodable(handlers[h].data)
            /\ handlers'[h] # handlers[h] )
          => ( /\ handlers'[h].pc = "done"
               /\ handlers'[h].out = << >>
               /\ reasm' = reasm
               /\ stores' = stores )]_vars

\* the chunk with the tampered checksum was dropped although its sender has a session
MalformedDroppedWitness ==
    \E h \in HandlerIds :
        /\ handlers[h].data = CorruptDatagram
        /\ handlers[h].pc = "done"
        /\ handlers[h].out = << >>
        /\ kvSession[User1] # << >>
        /\ kvCount[Msg1] = 0
        /\ kvChunk[<< Msg1, 0 >>] = << >>

\* C17: a LIST_MESSAGES packet whose sender has a session is answered, by the time
\* its handler returns, with exactly one packet sent to the source address: a
\* MESSAGE_LIST whose recipient_id is the request's sender_id.
ListMessagesAnswered ==
    [][\A h \in HandlerIds :
          ( /\ handlers[h].pc # "done"
            /\ handlers'[h].pc = "done"
            /\ handlers'[h].pkt.Type = PacketTypeListMessages
            /\ GetSession(handlers'[h].pkt.SenderID) # << >> )
          => ( /\ Len(handlers'[h].out) = 1
               /\ handlers'[h].out[1].to = handlers[h].addr
               /\ LET r == Unmarshal(handlers'[h].out[1].data)
                  IN  /\ r.err = ""
                      /\ r.pkt.Type = PacketTypeMessageList
                      /\ r.pkt.RecipientID = handlers'[h].pkt.SenderID ) ]_vars

\* C20: a VOICE_DATA handler sends its ACK only after SavePendingChunk and
\* IncrementChunksReceived have both succeeded; when either fails the handler returns
\* with nothing sent and without starting a reassembly, and a reassembly is only
\* started by a handler that has sent its ACK.
AckAfterSaveAndIncrement ==
    [][/\ \A h \in HandlerIds :
             (handlers[h].pkt.Type = PacketTypeVoiceData /\ handlers'[h] # handlers[h]) =>
                 /\ handlers'[h].out # handlers[h].out => handlers[h].pc = "vd_ack"
                 /\ handlers'[h].pc = "vd_ack" =>
                        /\ handlers[h].pc = "vd_incr"
                        /\ faults' = faults
                        /\ kvCount'[handlers[h].pkt.MessageID]
                               = kvCount[handlers[h].pkt.MessageID] + 1
                 /\ handlers'[h].pc = "vd_incr" =>
                        /\ handlers[h].pc = "vd_save"
                        /\ faults' = faults
                        /\ kvChunk'[<< handlers[h].pkt.MessageID, handlers[h].pkt.ChunkIndex >>]
                               = << handlers[h].pkt.Payload >>
                 /\ (handlers[h].pc \in {"vd_save", "vd_incr"} /\ faults' # faults) =>
                        /\ handlers'[h].pc = "done"
                        /\ handlers'[h].out = << >>
                        /\ reasm' = reasm
       /\ Len(reasm') > Len(reasm) =>
             \E h \in HandlerIds : /\ handlers[h].pc = "vd_check"
                                   /\ Len(handlers[h].out) = 1 ]_vars

\* the chunk of Msg2 was saved, the increment failed, and the handler returned
\* without an ACK and without a reassembly
AckAfterSaveAndIncrementWitness ==
    \E h \in HandlerIds :
        /\ handlers[h].pkt.Type = PacketTypeVoiceData
        /\ handlers[h].pkt.MessageID = Msg2
        /\ handlers[h].pc = "done"
        /\ handlers[h].out = << >>
        /\ kvSession[User1] # << >>
        /\ kvChunk[<< Msg2, 0 >>] = << ChunkOf(Msg2, 0) >>
        /\ kvCount[Msg2] = 0
        /\ faults = 1
        /\ reasm = << >>

\* the handlers of the decoded VOICE_DATA packets of message m
ChunkHandlers(m) ==
    {h \in HandlerIds : /\ handlers[h].pkt.Type = PacketTypeVoiceData
                        /\ handlers[h].pkt.MessageID = m}

\* every chunk of m was received exactly once, from a sender whose session the
\* handler found, and every goroutine working on m has returned
UploadedOnce(m) ==
    /\ \A i \in 0..(TotalOf(m) - 1) :
           Cardinality({h \in ChunkHandlers(m) : handlers[h].pkt.ChunkIndex = i}) = 1
    /\ \A h \in ChunkHandlers(m) : handlers[h].uname # "" /\ handlers[h].pc = "done"
    /\ \A h \in HandlerIds : handlers[h].pc = "handlePacket" =>
           Unmarshal(handlers[h].data).pkt.MessageID # m
    /\ \A t \in TasksOf(m) : reasm[t].pc = "done"

UnsupportedVersionRejected ==
    [][\A h \in HandlerIds :
          ( /\ handlers[h].pc = "handlePacket"
            /\ Len(handlers[h].data) > 0
            /\ handlers[h].data[1] # ProtocolVersion
            /\ handlers'[h] # handlers[h] )
          => ( /\ handlers'[h].pc = "done"
               /\ handlers'[h].out = << >>
               /\ reasm' = reasm
               /\ stores' = stores )]_vars

\* C12: every packet handlePacket has accepted and dispatched has a payload of at
\* most MaxPayloadSize bytes, and no chunk key holds more than MaxPayloadSize bytes.
AcceptedPayloadBounded ==
    /\ \A h \in HandlerIds :
           handlers[h].pkt # ZeroPacket =>
               /\ handlers[h].pkt.PayloadLen <= MaxPayloadSize
               /\ Len(handlers[h].pkt.Payload) <= MaxPayloadSize
    /\ \A k \in DOMAIN kvChunk :
           kvChunk[k] # << >> => Len(kvChunk[k][1]) <= MaxPayloadSize

\* the payloads of the VOICE_DATA packets in out, joined in the order sent;
\* << -1 >> when a packet of another type is among them
RECURSIVE VoicePayloads(_)
VoicePayloads(out) ==
    IF out = << >> THEN << >>
    ELSE IF Unmarshal(Head(out).data).pkt.Type # PacketTypeVoiceData THEN << -1 >>
    ELSE Unmarshal(Head(out).data).pkt.Payload \o VoicePayloads(Tail(out))

\* C18: a DOWNLOAD packet for a recorded message, from a sender with a session, is
\* served only to the recorded recipient: by the time its handler returns, the
\* recipient has been sent VOICE_DATA packets of at most MaxPayloadSize bytes whose
\* payloads joined equal the stored blob, and anyone else has been sent one ERROR
\* packet with payload "forbidden" and no VOICE_DATA.
DownloadOnlyForRecipient ==
    [][\A h \in HandlerIds :
          ( /\ handlers[h].pc # "done"
            /\ handlers'[h].pc = "done"
            /\ handlers'[h].pkt.Type = PacketTypeDownloadMsg
            /\ handlers'[h].pkt.MessageID \in MsgIds
            /\ GetSession(handlers'[h].pkt.SenderID) # << >>
            /\ ledger[handlers'[h].pkt.MessageID] # << >>
            /\ blobs[handlers'[h].pkt.MessageID] # << >> )
          => IF ledger[handlers'[h].pkt.MessageID][1].RecipientID = handlers'[h].pkt.SenderID
             THEN /\ VoicePayloads(handlers'[h].out) = blobs[handlers'[h].pkt.MessageID][1]
                  /\ \A k \in 1..Len(handlers'[h].out) :
                         Unmarshal(handlers'[h].out[k].data).pkt.PayloadLen <= MaxPayloadSize
             ELSE /\ Len(handlers'[h].out) = 1
                  /\ handlers'[h].out[1].to = handlers[h].addr
                  /\ Unmarshal(handlers'[h].out[1].data).pkt.Type = PacketTypeError
                  /\ Unmarshal(handlers'[h].out[1].data).pkt.Payload
                         = << 102, 111, 114, 98, 105, 100, 100, 101, 110 >> ]_vars

\* C15: when forwardMessageToRecipient has found the recipient's session, its send
\* loop ends with VOICE_DATA packets sent to the session's address, each of at most
\* MaxPayloadSize payload bytes, whose payloads joined in order equal the assembled
\* data (for "AA" and "BB": packets totalling "AABB"), and the update that follows
\* sets the row's status to delivered.
ForwardDelivers ==
    [][\A t \in ReasmIds :
          /\ (reasm[t].pc = "fwd_send" /\ reasm'[t] # reasm[t]) =>
                /\ reasm'[t].pc = "fwd_update"
                /\ ~crashed'
                /\ \A k \in 1..Len(reasm'[t].out) :
                       /\ reasm'[t].out[k].to = reasm[t].addr
                       /\ Unmarshal(reasm'[t].out[k].data).pkt.PayloadLen <= MaxPayloadSize
                /\ VoicePayloads(reasm'[t].out) = reasm[t].data
          /\ ( /\ reasm[t].pc = "fwd_update"
               /\ reasm'[t] # reasm[t]
               /\ faults' = faults
               /\ ledger[reasm[t].messageID] # << >> ) =>
                ledger'[reasm[t].messageID][1].Status = "delivered" ]_vars

\* the place of a status on the path pending, transmitted, delivered, listened
StatusRank(status) ==
    IF status = "pending" THEN 0
    ELSE IF status = "transmitted" THEN 1
    ELSE IF status = "delivered" THEN 2
    ELSE 3

\* whether a row with status a may become a row with status b
StatusMayFollow(a, b) ==
    \/ a = b
    \/ b = "failed" /\ a \notin {"listened", "failed"}
    \/ a # "failed" /\ b # "failed" /\ StatusRank(a) < StatusRank(b)

\* C16: the status of a row only moves forward along pending, transmitted,
\* delivered, listened, or into failed from a state that is not terminal: no step
\* of the engine removes a row or gives it an earlier status.
StatusMovesForward ==
    [][\A m \in MsgIds :
          ledger[m] # << >> =>
              /\ ledger'[m] # << >>
              /\ StatusMayFollow(ledger[m][1].Status, ledger'[m][1].Status) ]_vars

HeartbeatRefreshes ==
    [][\A h \in HandlerIds :
          (handlers[h].pkt.Type = PacketTypeHeartbeat /\ handlers'[h] # handlers[h]) =>
              /\ (handlers[h].pc = "uls_get" /\ GetSession(handlers[h].pkt.SenderID) = << >>) =>
                     /\ handlers'[h].pc = "done"
                     /\ handlers'[h].out = << >>
                     /\ stores' = stores
              /\ (handlers[h].pc = "uls_set" /\ faults' = faults) =>
                     /\ handlers'[h].pc = "hb_ack"
                     /\ kvSession'[handlers[h].pkt.SenderID] # << >>
                     /\ kvSession'[handlers[h].pkt.SenderID][1].LastSeen = Now
                     /\ kvSessionExp'[handlers[h].pkt.SenderID] = Now + SessionTTL
              /\ handlers'[h].pc = "hb_ack" =>
                     (handlers[h].pc = "uls_set" /\ faults' = faults)
              /\ handlers'[h].out # handlers[h].out => handlers[h].pc = "hb_ack"
              /\ handlers[h].pc = "hb_ack" =>
                     /\ handlers'[h].pc = "done"
                     /\ Len(handlers'[h].out) = 1
                     /\ handlers'[h].out[1].to = handlers[h].addr
                     /\ Unmarshal(handlers'[h].out[1].data).pkt.Type = PacketTypeAck
                     /\ Unmarshal(handlers'[h].out[1].data).pkt.MessageID
                            = handlers[h].pkt.MessageID ]_vars

\* a HEARTBEAT of User1 arrived TickSeconds after the AUTH: one ACK went out, and the
\* session's last_seen and expiry moved on from the values the AUTH had set
HeartbeatRefreshesWitness ==
    \E h \in HandlerIds :
        /\ handlers[h].pkt.Type = PacketTypeHeartbeat
        /\ handlers[h].pc = "done"
        /\ Len(handlers[h].out) = 1
        /\ kvSession[User1] # << >>
        /\ kvSession[User1][1].LastSeen > kvSession[User1][1].ConnectAt
        /\ kvSessionExp[User1] = kvSession[User1][1].LastSeen + SessionTTL

\* C21: the handler of the chunk that completes a message sends its ACK before it
\* starts processCompleteMessage, and does not wait for it: the ACK step touches no
\* store and no task, and the step that starts the task belongs to a handler whose
\* ACK is already out, leaves blob store and ledger alone, and ends the handler
\* while the task has yet to read its first chunk.
AckBeforeReassembly ==
    [][\A h \in HandlerIds :
          (handlers[h].pkt.Type = PacketTypeVoiceData /\ handlers'[h] # handlers[h]) =>
              /\ handlers[h].pc = "vd_ack" =>
                     /\ handlers'[h].pc = "vd_check"
                     /\ Len(handlers'[h].out) = 1
                     /\ Unmarshal(handlers'[h].out[1].data).pkt = NewAckPacket(handlers[h].pkt)
                     /\ reasm' = reasm
                     /\ stores' = stores
              /\ Len(reasm') > Len(reasm) =>
                     /\ handlers[h].pc = "vd_check"
                     /\ Len(handlers[h].out) = 1
                     /\ handlers'[h].out = handlers[h].out
                     /\ handlers'[h].pc = "done"
                     /\ Len(reasm') = Len(reasm) + 1
                     /\ reasm'[Len(reasm')].pc = "get"
                     /\ reasm'[Len(reasm')].i = 0
                     /\ stores' = stores ]_vars

\* the handler of the second chunk of Msg1 has sent its ACK and returned while the
\* task it started has not read a chunk yet and nothing is uploaded or recorded
AckBeforeReassemblyWitness ==
    \E h \in HandlerIds, t \in ReasmIds :
        /\ handlers[h].pkt.MessageID = Msg1
        /\ handlers[h].count = handlers[h].pkt.TotalChunks
        /\ handlers[h].pc = "done"
        /\ Len(handlers[h].out) = 1
        /\ reasm[t].messageID = Msg1
        /\ reasm[t].pc = "get"
        /\ reasm[t].i = 0
        /\ blobs[Msg1] = << >>
        /\ ledger[Msg1] = << >>

\* C22: every reassembly task that has assembled its message ends by deleting the
\* message's pending state: when it returns and no store call has failed, the chunk
\* keys 0..total_chunks-1 and the counter of its message are gone, whether the
\* recipient was online and forwarded to or offline.
TaskEndsWithCleanup ==
    [][\A t \in ReasmIds :
          ( /\ reasm[t].pc # "done"
            /\ reasm'[t].pc = "done"
            /\ reasm[t].i = reasm[t].totalChunks
            /\ faults' = 0 )
          => ( /\ \A k \in PendingKeys(reasm[t].messageID, reasm[t].totalChunks) :
                      kvChunk'[k] = << >>
               /\ kvCount'[reasm[t].messageID] = 0 ) ]_vars

\* C23: when a chunk index in 0..total_chunks-1 cannot be read during assembly, the
\* task stops reading, calls UpdateMessageStatus(failed) and returns: an existing row
\* gets status failed when the update succeeds, and the task uploads no blob,
\* creates no row and sends nothing.
MissingChunkAborts ==
    [][\A t \in ReasmIds :
          /\ ( /\ reasm[t].pc = "get"
               /\ reasm'[t] # reasm[t]
               /\ (faults' # faults \/ GetPendingChunk(reasm[t].messageID, reasm[t].i) = << >>) )
             => ( /\ reasm'[t].pc = "fail"
                  /\ stores' = stores )
          /\ (reasm[t].pc = "fail" /\ reasm'[t] # reasm[t]) =>
                /\ reasm'[t].pc = "done"
                /\ reasm'[t].out = << >>
                /\ blobs' = blobs
                /\ kv' = kv
                /\ \A m \in MsgIds :
                       IF m = reasm[t].messageID /\ ledger[m] # << >> /\ faults' = faults
                       THEN ledger'[m] = << [ledger[m][1] EXCEPT !.Status = "failed"] >>
                       ELSE ledger'[m] = ledger[m] ]_vars

\* chunk 0 of Msg3 arrived announcing two chunks when the counter stood at 1: the
\* task read chunk 0, found chunk 1 missing, marked the existing row failed and
\* returned with nothing sent
MissingChunkAbortsWitness ==
    \E t \in ReasmIds :
        /\ reasm[t].messageID = Msg3
        /\ reasm[t].totalChunks = 2
        /\ reasm[t].i = 1
        /\ reasm[t].pc = "done"
        /\ reasm[t].out = << >>
        /\ faults = 0
        /\ kvChunk[<< Msg3, 1 >>] = << >>
        /\ ledger[Msg3] # << >>
        /\ ledger[Msg3][1].Status = "failed"

\* C24: when UploadVoiceMessage has failed, the ledger write is still attempted and
\* the row it creates for the message has status failed.
FailedUploadMarkedFailed ==
    [][\A t \in ReasmIds :
          ( /\ reasm[t].pc = "create"
            /\ reasm'[t] # reasm[t]
            /\ reasm[t].objectPath = ""
            /\ ledger[reasm[t].messageID] = << >>
            /\ ledger'[reasm[t].messageID] # << >> )
          => ledger'[reasm[t].messageID][1].Status = "failed" ]_vars

\* C25: the row processCompleteMessage creates has status transmitted,
\* transmitted_at set to the time of creation, chunks_received = total_chunks and
\* file_size equal to the length of the assembled bytes.
CreatedRowComplete ==
    [][\A t \in ReasmIds :
          ( /\ reasm[t].pc = "create"
            /\ reasm'[t] # reasm[t]
            /\ ledger[reasm[t].messageID] = << >>
            /\ ledger'[reasm[t].messageID] # << >> )
          => ( /\ ledger'[reasm[t].messageID][1].Status = "transmitted"
               /\ ledger'[reasm[t].messageID][1].TransmittedAt = << Now >>
               /\ ledger'[reasm[t].messageID][1].ChunksReceived = reasm[t].totalChunks
               /\ ledger'[reasm[t].messageID][1].FileSize = Len(reasm[t].data) ) ]_vars

\* the ACK packets the engine has read so far from the recipient of message m
AcksFrom(recipientID, m) ==
    {h \in HandlerIds : /\ Unmarshal(handlers[h].data).err = ""
                        /\ Unmarshal(handlers[h].data).pkt.Type = PacketTypeAck
                        /\ Unmarshal(handlers[h].data).pkt.MessageID = m
                        /\ Unmarshal(handlers[h].data).pkt.SenderID = recipientID}

\* C26: a row has status delivered only once the recipient has acknowledged the
\* forwarded chunks: whenever a row says delivered, the engine has read an ACK of
\* that message from its recipient.
DeliveredOnlyAfterAck ==
    \A m \in MsgIds :
        (ledger[m] # << >> /\ ledger[m][1].Status = "delivered") =>
            AcksFrom(ledger[m][1].RecipientID, m) # {}

\* C27: a VOICE_DATA packet whose increment returns more than total_chunks (a late
\* retry) is still answered with its ACK, but its handler starts no reassembly and
\* writes no ledger row: from the increment on, its steps leave the ledger and the
\* tasks as they are.
LateRetryIgnored ==
    [][\A h \in HandlerIds :
          ( /\ handlers'[h].pkt.Type = PacketTypeVoiceData
            /\ handlers'[h] # handlers[h]
            /\ handlers'[h].count > handlers'[h].pkt.TotalChunks )
          => ( /\ reasm' = reasm
               /\ ledger' = ledger
               /\ blobs' = blobs
               /\ handlers[h].pc = "vd_incr" => handlers'[h].pc = "vd_ack"
               /\ handlers[h].pc = "vd_ack" =>
                      /\ handlers'[h].pc = "vd_check"
                      /\ Len(handlers'[h].out) = 1
                      /\ Unmarshal(handlers'[h].out[1].data).pkt
                             = NewAckPacket(handlers[h].pkt)
               /\ handlers[h].pc = "vd_check" =>
                      /\ handlers'[h].pc = "done"
                      /\ handlers'[h].out = handlers[h].out
                      /\ Len(handlers[h].out) = 1 ) ]_vars

\* Msg2 has one chunk and was sent twice before any cleanup: the second handler
\* counted 2, sent its ACK and returned, and only the first started a task
LateRetryIgnoredWitness ==
    \E h \in HandlerIds :
        /\ handlers[h].pkt.MessageID = Msg2
        /\ handlers[h].pkt.TotalChunks = 1
        /\ handlers[h].count = 2
        /\ handlers[h].pc = "done"
        /\ Len(handlers[h].out) = 1
        /\ Cardinality(TasksOf(Msg2)) = 1

\* the VOICE_DATA handlers of message m whose increment succeeded
CountedHandlers(m) ==
    {h \in HandlerIds : /\ handlers[h].pkt.Type = PacketTypeVoiceData
                        /\ handlers[h].pkt.MessageID = m
                        /\ handlers[h].count > 0}

\* some chunk index of message m was counted by two handlers
CountedTwice(m) ==
    \E g, h \in CountedHandlers(m) :
        /\ g # h
        /\ handlers[g].pkt.ChunkIndex = handlers[h].pkt.ChunkIndex

PendingDeleted(m) ==
    /\ faults = 0
    /\ \E t \in TasksOf(m) :
          /\ reasm[t].pc = "done"
          /\ reasm[t].i = reasm[t].totalChunks
          /\ reasm[t].addr = ""

\* C29: a pending message is never mutated after its deletion: once
\* DeletePendingMessage has run for a message_id, no later step (such as the handler
\* of a retransmitted chunk) writes a chunk key or raises the counter of that
\* message_id again.
PendingNeverRewritten ==
    [][\A m \in MsgIds :
          PendingDeleted(m)
          => ( /\ \A k \in PendingKeys(m, TotalOf(m)) : kvChunk[k] = << >> => kvChunk'[k] = << >>
               /\ kvCount'[m] <= kvCount[m] ) ]_vars

\* C30: the received counter of a message lives no longer than the message's chunk
\* keys: while no reassembly of the message has been started (the upload has not
\* completed), a counter above zero has a chunk key of the message beside it, so a
\* counter whose chunk keys have expired after 600 seconds is gone as well.
CounterExpiresWithChunks ==
    \A m \in MsgIds :
        (TasksOf(m) = {} /\ kvCount[m] > 0)
            => \E k \in PendingKeys(m, TotalOf(m)) : kvChunk[k] # << >>

\* C31: online_users is kept in step with the session keys: a member of online_users
\* always has a session record (IsUserOnline is never true for a user whose
\* GetSession finds nothing, also after the key's lifetime is over), and, while no
\* store call has failed and no CreateSession is between its two commands, a user
\* with a session record is a member of online_users.
OnlineIffSession ==
    \A u \in DOMAIN kvSession :
        /\ IsUserOnline(u) => GetSession(u) # << >>
        /\ ( /\ GetSession(u) # << >>
             /\ faults = 0
             /\ \A h \in HandlerIds : ~(handlers[h].pc = "auth_sadd" /\ handlers[h].uid = u) )
           => IsUserOnline(u)

(***************************************************************************)
(* RoamSpec: User1 authenticates from two addresses, sends heartbeats and  *)
(* a one-chunk message to User1                                            *)
(***************************************************************************)
RoamDatagrams ==
    { [data |-> Marshal(NewAuthPacket(UuidNil, Token1, AuthMsgId)).data, addr |-> "a1"],
      [data |-> Marshal(NewAuthPacket(UuidNil, Token1, AuthMsgId)).data, addr |-> "a2"],
      [data |-> HeartbeatDatagram, addr |-> "a1"],
      [data |-> SelfDatagram(0, 1), addr |-> "a2"] }

RoamNext ==
    \/ \E d \in RoamDatagrams : Listen(d)
    \/ \E h \in HandlerIds : HandlePacket(h)
    \/ \E h \in HandlerIds : HandleAuth(h)
    \/ \E h \in HandlerIds : HandleAuthSadd(h)
    \/ \E h \in HandlerIds : HandleAuthAck(h)
    \/ \E h \in HandlerIds : HandleVoiceData(h)
    \/ \E h \in HandlerIds : UpdateLastSeenGet(h)
    \/ \E h \in HandlerIds : UpdateLastSeenSet(h)
    \/ \E h \in HandlerIds : HandleVoiceDataSave(h)
    \/ \E h \in HandlerIds : HandleVoiceDataIncr(h)
    \/ \E h \in HandlerIds : HandleVoiceDataAck(h)
    \/ \E h \in HandlerIds : HandleVoiceDataCheck(h)
    \/ \E h \in HandlerIds : HandleHeartbeatAck(h)
    \/ \E t \in ReasmIds : ProcessGetChunk(t)
    \/ \E t \in ReasmIds : ProcessMarkFailed(t)
    \/ \E t \in ReasmIds : ProcessUpload(t)
    \/ \E t \in ReasmIds : ProcessCreateMessage(t)
    \/ \E t \in ReasmIds : ProcessIsOnline(t)
    \/ \E t \in ReasmIds : ProcessCleanup(t)
    \/ \E t \in ReasmIds : ForwardGetSession(t)
    \/ \E t \in ReasmIds : ForwardSend(t)
    \/ \E t \in ReasmIds : ForwardUpdate(t)

RoamSpec == Init /\ [][RoamNext]_vars

RaceDatagrams ==
    { [data |-> Marshal(NewAuthPacket(UuidNil, Token1, AuthMsgId)).data, addr |-> "a1"],
      [data |-> Marshal(NewAuthPacket(UuidNil, Token1, AuthMsgId)).data, addr |-> "a2"],
      [data |-> HeartbeatDatagram, addr |-> "a1"] }

RaceNext ==
    \/ \E d \in RaceDatagrams : Listen(d)
    \/ \E h \in HandlerIds : HandlePacket(h)
    \/ \E h \in HandlerIds : HandleAuth(h)
    \/ \E h \in HandlerIds : HandleAuthSadd(h)
    \/ \E h \in HandlerIds : HandleAuthAck(h)
    \/ \E h \in HandlerIds : UpdateLastSeenGet(h)
    \/ \E h \in HandlerIds : UpdateLastSeenSet(h)
    \/ \E h \in HandlerIds : HandleHeartbeatAck(h)
    \/ Tick

RaceSpec == Init /\ [][RaceNext]_vars

\* C39 as stated: a write of UpdateLastSeen never loses what the store holds: when
\* the session exists at the time of its SET, the address after the SET is the
\* address before it (the one the latest CreateSession wrote), and when the session
\* is gone (expired) the SET does not create it again.
SessionWritesNotLost ==
    [][\A h \in HandlerIds :
          (handlers[h].pc = "uls_set" /\ handlers'[h].pc # "uls_set")
          => LET u == handlers[h].pkt.SenderID
             IN  IF kvSession[u] = << >>
                 THEN kvSession'[u] = << >>
                 ELSE /\ kvSession'[u] # << >>
                      /\ kvSession'[u][1].Address = kvSession[u][1].Address ]_vars

\* C39: the last writer wins: a successful SET of UpdateLastSeen stores the whole
\* record the handler read before, with last_seen set to now and a fresh 300-second
\* lifetime, whatever the store holds at that time (a record with another address
\* written by a CreateSession in between, or no record after the key expired).
LastWriterWins ==
    [][\A h \in HandlerIds :
          (handlers[h].pc = "uls_set" /\ handlers'[h].pc # "uls_set" /\ faults' = faults)
          => LET u == handlers[h].pkt.SenderID
             IN  /\ kvSession'[u] = << [handlers[h].sess[1] EXCEPT !.LastSeen = Now] >>
                 /\ kvSessionExp'[u] = clock + SessionTTL ]_vars

\* a heartbeat handler read User1's session with address a1, and before its SET an
\* AUTH from a2 wrote the session
LastWriterWinsWitness ==
    \E h \in HandlerIds :
        /\ handlers[h].pc = "uls_set"
        /\ handlers[h].pkt.SenderID = User1
        /\ handlers[h].sess[1].Address = "a1"
        /\ GetSession(User1) # << >>
        /\ GetSession(User1)[1].Address = "a2"

\* C40: the update that advances a row to delivered changes only status and
\* delivered_at: after forwardMessageToRecipient's UpdateMessage the row's
\* chunks_received still equals its total_chunks, and transmitted_at, sender_id,
\* recipient_id, file_path and file_size (every other column) are as they were.
DeliveredUpdateFrame ==
    [][\A t \in ReasmIds :
          ( /\ reasm[t].pc = "fwd_update" /\ reasm'[t].pc = "done"
            /\ faults' = faults
            /\ ledger[reasm[t].messageID] # << >> )
          => LET old == ledger[reasm[t].messageID][1]
                 new == ledger'[reasm[t].messageID][1]
             IN  /\ new = [old EXCEPT !.Status = new.Status, !.DeliveredAt = new.DeliveredAt]
                 /\ new.Status = "delivered"
                 /\ new.ChunksReceived = new.TotalChunks ]_vars

\* C36: reassembly is triggered by the count of accepted VOICE_DATA packets, not by
\* the chunk indices stored: the handler whose increment returned total_chunks starts
\* the task whichever chunk keys exist, no other handler starts one, and while every
\* task of a message has stopped at a missing index the message has no blob and no
\* ledger row.
CountTriggersAssembly ==
    /\ [][\A h \in HandlerIds :
             (handlers[h].pc = "vd_check" /\ handlers'[h].pc = "done")
             => IF handlers[h].count = handlers[h].pkt.TotalChunks
                THEN reasm' = Append(reasm, NewReassembly(handlers[h].pkt.MessageID,
                         handlers[h].pkt.SenderID, handlers[h].pkt.RecipientID,
                         handlers[h].pkt.TotalChunks))
                ELSE reasm' = reasm ]_vars
    /\ [](\A m \in MsgIds :
             (\A t \in TasksOf(m) : reasm[t].pc = "done" /\ reasm[t].i < reasm[t].totalChunks)
             => (blobs[m] = << >> /\ ledger[m] = << >>))

\* chunk 0 of the two-chunk Msg1 was processed twice and chunk 1 never: the second
\* packet counted 2 and started the task, which stopped at index 1 with no blob and
\* no row
CountTriggersAssemblyWitness ==
    /\ CountedTwice(Msg1)
    /\ \A h \in CountedHandlers(Msg1) : handlers[h].pkt.ChunkIndex = 0
    /\ GetPendingChunk(Msg1, 1) = << >>
    /\ faults = 0
    /\ \E t \in TasksOf(Msg1) :
          /\ reasm[t].pc = "done"
          /\ reasm[t].i = 1
    /\ blobs[Msg1] = << >>
    /\ ledger[Msg1] = << >>

(***************************************************************************)
(* ShutdownSpec: the engine until and after Shutdown is called             *)
(***************************************************************************)
\* s.wg: one for listen until it returns, one for every handlePacket and
\* processCompleteMessage goroutine that has not returned
WaitGroup == (IF srv.listen = "returned" THEN 0 ELSE 1) + InFlight

\* Shutdown up to its select: s.cancel(), s.conn.Close(), the goroutine that waits
\* for s.wg
ShutdownBegin ==
    /\ ~crashed
    /\ srv.shutdown = "idle"
    /\ srv' = [srv EXCEPT !.ctx = "cancelled", !.conn = "closed", !.shutdown = "wait"]
    /\ UNCHANGED << stores, handlers, reasm, faults, crashed, codec, clock, cli >>

\* listen: ReadFromUDP fails on the closed socket, the loop goes round and its select
\* finds s.ctx done
ListenReturn ==
    /\ ~crashed
    /\ srv.listen = "read"
    /\ srv.conn = "closed"
    /\ srv' = [srv EXCEPT !.listen = IF srv.ctx = "cancelled" THEN "returned" ELSE "read"]
    /\ UNCHANGED << stores, handlers, reasm, faults, crashed, codec, clock, cli >>

\* Shutdown that returns nil without waiting for s.wg
ShutdownReturnNoWait ==
    /\ ~crashed
    /\ srv.shutdown = "wait"
    /\ srv' = [srv EXCEPT !.shutdown = "nil"]
    /\ UNCHANGED << stores, handlers, reasm, faults, crashed, codec, clock, cli >>

\* Shutdown's select, case <-done: s.wg.Wait() has returned; return nil
ShutdownReturn ==
    /\ ~crashed
    /\ srv.shutdown = "wait"
    /\ WaitGroup = 0
    /\ srv' = [srv EXCEPT !.shutdown = "nil"]
    /\ UNCHANGED << stores, handlers, reasm, faults, crashed, codec, clock, cli >>

\* Shutdown's select, case <-ctx.Done(): the caller's deadline passes while s.wg is
\* not yet zero; return ctx.Err()
ShutdownDeadline ==
    /\ ~crashed
    /\ srv.shutdown = "wait"
    /\ WaitGroup # 0
    /\ srv' = [srv EXCEPT !.shutdown = "deadline"]
    /\ UNCHANGED << stores, handlers, reasm, faults, crashed, codec, clock, cli >>

ShutdownDatagrams ==
    { [data |-> Marshal(NewAuthPacket(UuidNil, Token1, AuthMsgId)).data, addr |-> "a1"],
      [data |-> VoiceDatagram(Msg2, 0), addr |-> "a1"] }

ShutdownNext ==
    \/ \E d \in ShutdownDatagrams : Listen(d)
    \/ \E h \in HandlerIds : HandlePacket(h)
    \/ \E h \in HandlerIds : HandleAuth(h)
    \/ \E h \in HandlerIds : HandleAuthSadd(h)
    \/ \E h \in HandlerIds : HandleAuthAck(h)
    \/ \E h \in HandlerIds : HandleVoiceData(h)
    \/ \E h \in HandlerIds : UpdateLastSeenGet(h)
    \/ \E h \in HandlerIds : UpdateLastSeenSet(h)
    \/ \E h \in HandlerIds : HandleVoiceDataSave(h)
    \/ \E h \in HandlerIds : HandleVoiceDataIncr(h)
    \/ \E h \in HandlerIds : HandleVoiceDataAck(h)
    \/ \E h \in HandlerIds : HandleVoiceDataCheck(h)
    \/ \E t \in ReasmIds : ProcessGetChunk(t)
    \/ \E t \in ReasmIds : ProcessMarkFailed(t)
    \/ \E t \in ReasmIds : ProcessUpload(t)
    \/ \E t \in ReasmIds : ProcessCreateMessage(t)
    \/ \E t \in ReasmIds : ProcessIsOnline(t)
    \/ \E t \in ReasmIds : ProcessCleanup(t)
    \/ ShutdownBegin
    \/ ListenReturn
    \/ ShutdownReturn
    \/ ShutdownDeadline

ShutdownSpec == Init /\ [][ShutdownNext]_vars

\* every goroutine of the engine has returned
AllReturned ==
    /\ srv.listen = "returned"
    /\ \A h \in HandlerIds : handlers[h].pc = "done"
    /\ \A t \in ReasmIds : reasm[t].pc = "done"

ChanCap == 100

\* what Client.listen does with a datagram: too short or undecodable, it is dropped;
\* otherwise handlePacket puts the packet on its channel, and blocks while that
\* channel is full
ClientReceive(c, data) ==
    LET u  == Unmarshal(data)
        ch == ClientHandlePacket(u.pkt)
    IN  IF Len(data) < MinPacketSize \/ u.err # "" \/ ch = "none" THEN c
        ELSE IF Len(c[ch]) < ChanCap THEN [c EXCEPT ![ch] = Append(@, u.pkt)]
        ELSE [c EXCEPT !.listen = "blocked", !.held = << u.pkt >>]

\* Client.listen: one datagram read from the socket and dispatched
ClientListen(data) ==
    /\ cli.listen = "read"
    /\ cli' = ClientReceive(cli, data)
    /\ UNCHANGED << stores, handlers, reasm, faults, crashed, codec, clock, srv >>

(***************************************************************************)
(* InboxSpec: the client receives the server's packets while no method of  *)
(* it reads a channel                                                      *)
(***************************************************************************)
\* the server's ACK of the client's heartbeat
HeartbeatAckDatagram ==
    Marshal(NewAckPacket(NewPacket(PacketTypeHeartbeat, User1, UuidNil, AuthMsgId))).data

\* a chunk the server forwards to the online recipient
ForwardedDatagram ==
    Marshal(NewVoiceDataPacket(User2, User1, Msg2, 0, 1, ChunkOf(Msg2, 0))).data

\* the server's error packet
ErrorDatagram ==
    Marshal([NewPacket(PacketTypeError, UuidNil, UuidNil, AuthMsgId)
                EXCEPT !.Payload = InvalidTokenText]).data

InboxDatagrams == {HeartbeatAckDatagram, ForwardedDatagram, ErrorDatagram}

InboxNext == \E d \in InboxDatagrams : ClientListen(d)

InboxSpec == Init /\ [][InboxNext]_vars

\* C38: the client's receive loop never blocks: whatever packets arrive and whether
\* or not a method reads the channels, handlePacket's send never finds its channel
\* full, so the listener is never stuck holding a packet.
ListenerNeverBlocks ==
    cli.listen # "blocked"

(***************************************************************************)
(* Client.SendVoiceMessage and Client.sendWithRetry                        *)
(***************************************************************************)
\* the maxRetries SendVoiceMessage passes to sendWithRetry
MaxRetries == 3

\* the address the client's socket is bound to
ClientAddr == "a1"

\* totalChunks := (len(data) + chunkSize - 1) / chunkSize
ChunkCount(data) == (Len(data) + MaxPayloadSize - 1) \div MaxPayloadSize

\* data[start:end] of chunk i
ChunkData(data, i) ==
    SubSeq(data, i * MaxPayloadSize + 1, Min(i * MaxPayloadSize + MaxPayloadSize, Len(data)))

\* the packet SendVoiceMessage builds for the chunk it is at
ChunkPacket(call) ==
    NewVoiceDataPacket(call.userID, call.recipientID, call.messageID, call.i,
                       call.totalChunks, ChunkData(call.data, call.i))

\* whether ack confirms the chunk the call is at
AckMatches(ack, call) ==
    ack.MessageID = call.messageID /\ ack.ChunkIndex = call.i

\* SendVoiceMessage: the file is read, the message id drawn, the chunks counted
SendVoiceMessage(userID, recipientID, messageID, data) ==
    /\ cli.call = NoCall
    /\ cli' = [cli EXCEPT !.call =
           [op |-> "SendVoiceMessage", pc |-> "chunk", userID |-> userID,
            recipientID |-> recipientID, messageID |-> messageID, data |-> data,
            totalChunks |-> ChunkCount(data), i |-> 0, successfulChunks |-> 0,
            attempt |-> 0, ack |-> << >>, ret |-> "", result |-> ""]]
    /\ UNCHANGED << stores, handlers, reasm, faults, crashed, codec, clock, srv >>

\* SendVoiceMessage: the head of the loop over the chunks, and the return after it
SendNextChunk ==
    /\ cli.call.op = "SendVoiceMessage"
    /\ cli.call.pc = "chunk"
    /\ cli' = IF cli.call.i < cli.call.totalChunks
              THEN [cli EXCEPT !.call.attempt = 0, !.call.pc = "send"]
              ELSE [cli EXCEPT !.call.pc = "returned",
                       !.call.result =
                           IF cli.call.successfulChunks = cli.call.totalChunks
                           THEN "nil" ELSE "only some chunks sent"]
    /\ UNCHANGED << stores, handlers, reasm, faults, crashed, codec, clock, srv >>

\* sendWithRetry: the head of the loop; sendPacket, or "max retries exceeded" after
\* the last attempt; a chunk that failed is skipped
SendWithRetrySend ==
    /\ cli.call.op = "SendVoiceMessage"
    /\ cli.call.pc = "send"
    /\ LET m == Marshal(ChunkPacket(cli.call))
       IN  cli' = IF cli.call.attempt >= MaxRetries
                  THEN [cli EXCEPT !.call.ret = "max retries exceeded",
                           !.call.i = @ + 1, !.call.pc = "chunk"]
                  ELSE IF m.err # ""
                  THEN [cli EXCEPT !.call.ret = "failed to marshal packet",
                           !.call.i = @ + 1, !.call.pc = "chunk"]
                  ELSE [cli EXCEPT !.wire = Append(@, [data |-> m.data, addr |-> ClientAddr]),
                           !.call.pc = "wait"]
    /\ UNCHANGED << stores, handlers, reasm, faults, crashed, codec, clock, srv >>

\* sendWithRetry that takes any packet on ackChan as the confirmation
SendWithRetryAckAny ==
    /\ cli.call.op = "SendVoiceMessage"
    /\ cli.call.pc = "wait"
    /\ cli.ackChan # << >>
    /\ cli' = [cli EXCEPT !.ackChan = Tail(@), !.call.ack = << Head(cli.ackChan) >>,
                  !.call.ret = "nil", !.call.successfulChunks = @ + 1,
                  !.call.i = @ + 1, !.call.pc = "chunk"]
    /\ UNCHANGED << stores, handlers, reasm, faults, crashed, codec, clock, srv >>

\* sendWithRetry, case ack := <-c.ackChan: return nil when message id and chunk index
\* match, otherwise go to the next attempt
SendWithRetryAck ==
    /\ cli.call.op = "SendVoiceMessage"
    /\ cli.call.pc = "wait"
    /\ cli.ackChan # << >>
    /\ cli' = IF AckMatches(Head(cli.ackChan), cli.call)
              THEN [cli EXCEPT !.ackChan = Tail(@), !.call.ack = << Head(cli.ackChan) >>,
                       !.call.ret = "nil", !.call.successfulChunks = @ + 1,
                       !.call.i = @ + 1, !.call.pc = "chunk"]
              ELSE [cli EXCEPT !.ackChan = Tail(@), !.call.ack = << Head(cli.ackChan) >>,
                       !.call.attempt = @ + 1, !.call.pc = "send"]
    /\ UNCHANGED << stores, handlers, reasm, faults, crashed, codec, clock, srv >>

\* sendWithRetry, case <-ctx.Done(): two seconds have passed, go to the next attempt
SendWithRetryTimeout ==
    /\ cli.call.op = "SendVoiceMessage"
    /\ cli.call.pc = "wait"
    /\ cli' = [cli EXCEPT !.call.attempt = @ + 1, !.call.pc = "send"]
    /\ UNCHANGED << stores, handlers, reasm, faults, crashed, codec, clock, srv >>

(***************************************************************************)
(* RetrySpec: the client sends a one-chunk message while ACKs arrive       *)
(***************************************************************************)
\* packets that may wait unread on a channel in one run
MaxQueued == 2

\* the server's ACK of chunk i of total of message m from User1 to User2
ChunkAckDatagram(m, i, total) ==
    Marshal(NewAckPacket(NewVoiceDataPacket(User1, User2, m, i, total, << >>))).data

RetryDatagrams ==
    {ChunkAckDatagram(Msg2, 0, 1), ChunkAckDatagram(Msg2, 1, 2),
     ChunkAckDatagram(Msg1, 0, 1), HeartbeatAckDatagram}

RetryNext ==
    \/ SendVoiceMessage(User1, User2, Msg2, ChunkOf(Msg2, 0))
    \/ SendNextChunk
    \/ SendWithRetrySend
    \/ SendWithRetryAck
    \/ SendWithRetryTimeout
    \/ \E d \in RetryDatagrams : Len(cli.ackChan) < MaxQueued /\ ClientListen(d)

RetrySpec == Init /\ [][RetryNext]_vars

VoiceFile == Zeros(MaxPayloadSize) \o << 66 >>

\* User1 has authenticated from the client's address and the AUTH goroutine has
\* ended; the store calls of this run all succeed
LossInit ==
    /\ kvSession = [u \in UserIds |->
           IF u = User1 THEN << [UserID |-> User1, Username |-> "u1", Address |-> ClientAddr,
                                 LastSeen |-> 0, Status |-> "online", ConnectAt |-> 0] >>
           ELSE << >>]
    /\ kvSessionExp = [u \in UserIds |-> IF u = User1 THEN SessionTTL ELSE 0]
    /\ clock = 0
    /\ kvOnline = {User1}
    /\ kvChunk = [k \in ChunkKeys |-> << >>]
    /\ kvChunkExp = [k \in ChunkKeys |-> 0]
    /\ kvCount = [m \in MsgIds |-> 0]
    /\ ledger = [m \in MsgIds |-> << >>]
    /\ blobs = [m \in MsgIds |-> << >>]
    /\ handlers = << >>
    /\ reasm = << >>
    /\ faults = MaxFaults
    /\ crashed = FALSE
    /\ srv = ServerInit
    /\ cli = ClientInit
    /\ codec = CodecIdle

\* the sequence s without its k-th element
Without(s, k) == SubSeq(s, 1, k - 1) \o SubSeq(s, k + 1, Len(s))

\* Server.Listen reads the k-th datagram the client has written; a datagram that is
\* never read is lost
ListenWire(k) ==
    /\ k \in 1..Len(cli.wire)
    /\ ~crashed
    /\ srv.listen = "read"
    /\ srv.conn = "open"
    /\ Len(handlers) < MaxPackets
    /\ InFlight < MaxInFlight
    /\ handlers' = Append(handlers, NewHandler(cli.wire[k]))
    /\ cli' = [cli EXCEPT !.wire = Without(@, k)]
    /\ UNCHANGED << stores, reasm, faults, crashed, codec, clock, srv >>

\* Client.listen reads the k-th datagram handler h has written to the client's
\* address; a datagram that is never read is lost
ClientListenReply(h, k) ==
    /\ cli.listen = "read"
    /\ k \in 1..Len(handlers[h].out)
    /\ handlers[h].out[k].to = ClientAddr
    /\ << h, k >> \notin cli.got
    /\ cli' = [ClientReceive(cli, handlers[h].out[k].data) EXCEPT !.got = @ \cup {<< h, k >>}]
    /\ UNCHANGED << stores, handlers, reasm, faults, crashed, codec, clock, srv >>

LossNext ==
    \/ SendVoiceMessage(User1, User2, Msg1, VoiceFile)
    \/ SendNextChunk
    \/ SendWithRetrySend
    \/ SendWithRetryAck
    \/ \* two seconds pass only once the server has read what was sent and its
       \* goroutines have ended
       InFlight = 0 /\ cli.wire = << >> /\ SendWithRetryTimeout
    \/ \E k \in 1..Len(cli.wire) : ListenWire(k)
    \/ \E h \in HandlerIds : \E k \in 1..Len(handlers[h].out) : ClientListenReply(h, k)
    \/ \E h \in HandlerIds : HandlePacket(h)
    \/ \E h \in HandlerIds : HandleVoiceData(h)
    \/ \E h \in HandlerIds : UpdateLastSeenGet(h)
    \/ \E h \in HandlerIds : UpdateLastSeenSet(h)
    \/ \E h \in HandlerIds : HandleVoiceDataSave(h)
    \/ \E h \in HandlerIds : HandleVoiceDataIncr(h)
    \/ \E h \in HandlerIds : HandleVoiceDataAck(h)
    \/ \E h \in HandlerIds : HandleVoiceDataCheck(h)
    \/ \E t \in ReasmIds : ProcessGetChunk(t)
    \/ \E t \in ReasmIds : ProcessMarkFailed(t)
    \/ \E t \in ReasmIds : ProcessUpload(t)
    \/ \E t \in ReasmIds : ProcessCreateMessage(t)
    \/ \E t \in ReasmIds : ProcessIsOnline(t)
    \/ \E t \in ReasmIds : ProcessCleanup(t)

LossSpec == LossInit /\ [][LossNext]_vars

\* every datagram the client wrote was read and every goroutine of the server has ended
ServerAtRest ==
    /\ cli.wire = << >>
    /\ \A h \in HandlerIds : handlers[h].pc = "done"
    /\ \A t \in ReasmIds : reasm[t].pc = "done"

\* C37: once SendVoiceMessage has returned success and the server has nothing left
\* to do, the store holds the whole file under the message id and the ledger holds
\* the row of that message.
SuccessMeansStored ==
    ( /\ cli.call.op = "SendVoiceMessage"
      /\ cli.call.pc = "returned"
      /\ cli.call.result = "nil"
      /\ ServerAtRest )
    => /\ blobs[cli.call.messageID] = << cli.call.data >>
       /\ ledger[cli.call.messageID] # << >>

(***************************************************************************)
(* Client.DownloadMessage                                                  *)
(***************************************************************************)
\* m[idx] = payload of a Go map kept as a function from its keys
MapPut(m, idx, payload) ==
    [i \in (DOMAIN m) \cup {idx} |-> IF i = idx THEN payload ELSE m[i]]

RECURSIVE AssembleChunks(_, _)
\* the loop that appends chunks 0..n-1 to assembled
AssembleChunks(chunks, n) ==
    IF n = 0 THEN << >> ELSE AssembleChunks(chunks, n - 1) \o chunks[n - 1]

\* DownloadMessage up to the wait: the tracking entries are made and the DOWNLOAD
\* request is written
DownloadMessage(userID, messageID) ==
    /\ cli.call = NoCall
    /\ LET m == Marshal(NewDownloadMessagePacket(userID, messageID))
       IN  cli' = IF m.err # ""
                  THEN [cli EXCEPT !.downloadChunks[messageID] = << << >> >>,
                           !.downloadTotal[messageID] = << 0 >>,
                           !.call = [op |-> "DownloadMessage", pc |-> "returned",
                                     messageID |-> messageID, totalChunks |-> 0,
                                     result |-> "failed to send download request"]]
                  ELSE [cli EXCEPT !.downloadChunks[messageID] = << << >> >>,
                           !.downloadTotal[messageID] = << 0 >>,
                           !.wire = Append(@, [data |-> m.data, addr |-> ClientAddr]),
                           !.call = [op |-> "DownloadMessage", pc |-> "wait",
                                     messageID |-> messageID, totalChunks |-> 0,
                                     result |-> ""]]
    /\ UNCHANGED << stores, handlers, reasm, faults, crashed, codec, clock, srv >>

\* DownloadMessage, case dataPacket := <-c.dataChan; os.WriteFile succeeds or fails
DownloadData ==
    /\ cli.call.op = "DownloadMessage"
    /\ cli.call.pc = "wait"
    /\ cli.dataChan # << >>
    /\ LET p      == Head(cli.dataChan)
           id     == cli.call.messageID
           chunks == MapPut(cli.downloadChunks[id][1], p.ChunkIndex, p.Payload)
           took   == [cli EXCEPT !.dataChan = Tail(@)]
           kept   == [took EXCEPT !.downloadChunks[id] = << chunks >>,
                                  !.call.totalChunks = p.TotalChunks]
       IN  IF p.MessageID # id THEN cli' = took
           ELSE IF Cardinality(DOMAIN chunks) # p.TotalChunks THEN cli' = kept
           ELSE IF \E i \in 0..(p.TotalChunks - 1) : i \notin DOMAIN chunks
           THEN cli' = [kept EXCEPT !.call.pc = "returned", !.call.result = "missing chunk"]
           ELSE \E ok \in BOOLEAN :
                cli' = IF ok
                       THEN [kept EXCEPT !.files = << AssembleChunks(chunks, p.TotalChunks) >>,
                                !.downloadChunks[id] = << >>,
                                !.downloadTotal[id] = << >>,
                                !.call.pc = "returned", !.call.result = "nil"]
                       ELSE [kept EXCEPT !.call.pc = "returned",
                                !.call.result = "failed to save file"]
    /\ UNCHANGED << stores, handlers, reasm, faults, crashed, codec, clock, srv >>

\* DownloadMessage, case <-timeout: thirty seconds have passed since the request
DownloadTimeout ==
    /\ cli.call.op = "DownloadMessage"
    /\ cli.call.pc = "wait"
    /\ cli' = [cli EXCEPT !.downloadChunks[cli.call.messageID] = << >>,
                  !.downloadTotal[cli.call.messageID] = << >>,
                  !.call.pc = "returned", !.call.result = "download timeout"]
    /\ UNCHANGED << stores, handlers, reasm, faults, crashed, codec, clock, srv >>

(***************************************************************************)
(* DownloadSpec: the client downloads Msg1 while VOICE_DATA packets arrive *)
(***************************************************************************)
\* chunk i of total of message m pushed to User1, carrying payload
PushedDatagram(m, i, total, payload) ==
    Marshal(NewVoiceDataPacket(User2, User1, m, i, total, payload)).data

\* the two chunks of Msg1, the chunk of another message, and a chunk of a transfer
\* of Msg1 that was cut in three
DownloadDatagrams ==
    {PushedDatagram(Msg1, 0, 2, ChunkOf(Msg1, 0)), PushedDatagram(Msg1, 1, 2, ChunkOf(Msg1, 1)),
     PushedDatagram(Msg2, 0, 1, ChunkOf(Msg2, 0)), PushedDatagram(Msg1, 2, 3, ChunkOf(Msg2, 0))}

DownloadNext ==
    \/ DownloadMessage(User1, Msg1)
    \/ DownloadData
    \/ DownloadTimeout
    \/ \E d \in DownloadDatagrams : Len(cli.dataChan) < MaxQueued /\ ClientListen(d)

DownloadSpec == Init /\ [][DownloadNext]_vars

\* C34: when DownloadMessage has returned, the result is success or the timeout
\* error and the tracking entries of the message are removed; on success a chunk
\* was held for every index of the message and the file is those chunks in index order.
DownloadEndsClean ==
    (cli.call.op = "DownloadMessage" /\ cli.call.pc = "returned")
    => /\ cli.call.result \in {"nil", "download timeout"}
       /\ cli.downloadChunks[cli.call.messageID] = << >>
       /\ cli.downloadTotal[cli.call.messageID] = << >>
       /\ cli.call.result = "nil"
          => cli.files = << Concat([i \in 1..cli.call.totalChunks |->
                                       ChunkOf(cli.call.messageID, i - 1)]) >>

====
